---------------------------- MODULE Spec2Model ----------------------------
(***************************************************************************)
(* Verification model of the JavaDoc sidebar extension: the cursor index   *)
(* (binarySearchMethod), the debounce wrapper and the identity guard of    *)
(* SidebarProvider, the refresh passes of SidebarProvider, the symbol      *)
(* cache of resolveSymbols and the member assembly of JavaDocParser.parse. *)
(*                                                                         *)
(* The module holds one group of variables per subsystem and one           *)
(* specification per group; a specification leaves the other groups at     *)
(* their idle values.                                                      *)
(***************************************************************************)
EXTENDS Integers, Sequences, FiniteSets, Bags, TLC

(***************************************************************************)
(* Bounds of the model.                                                    *)
(***************************************************************************)
\* Largest line number of a modelled source file (lines are 0-based).
MaxLine == 4
\* Longest method list handed to binarySearchMethod.
MaxMethods == 3

(***************************************************************************)
(* State.                                                                  *)
(***************************************************************************)
VARIABLES
  \* one call of binarySearchMethod
  methods,          \* argument: the method list
  cursorLine,       \* argument: the query line
  searchResult,     \* the value returned
  searchPc,         \* "idle", "call" or "done"
  \* SidebarProvider
  currentMethods,   \* SidebarProvider.currentMethods
  lastHighlightId,  \* SidebarProvider.lastHighlightId
  outbox,           \* messages handed to view.webview.postMessage, in order
  \* debounce(updateHighlight, 300)
  timeoutId,        \* the closure variable of debounce
  timers,           \* timers of the host that are set and have not run
  calls,            \* history: the line of every debounced call
  deliveries,       \* history: every run of the wrapped callback
  elapsed,          \* history: ms since the last delivery, up to Delay
  lastGap,          \* history: elapsed at the most recent delivery
  \* one call of JavaDocParser.parse
  parseTree,        \* the symbols resolveSymbols returned
  flatMembers,      \* the list flattenSymbols(symbols, "") returned
  classDoc,         \* the ClassDoc parse returns
  parsePc,          \* "idle", "ready" or "done"
  \* the workspace and the symbol cache of resolveSymbols
  openVersion,      \* document.version of each open document, 0: not open
  symbolCache,      \* the module-level Map symbolCache
  pendingResolves,  \* the calls of resolveSymbols that await the provider
  lastReturn,       \* history: what the latest finished call returned
  \* the calls of SidebarProvider.refresh
  passes,           \* every call of refresh, in the order they started
  lastAccepted,     \* history: the pass whose result was accepted last
  \* one call of JavaDocParser.extractComment
  sourceLines,      \* text.split("\n") up to the target line
  comment,          \* the value returned, as its lines
  commentSpan,      \* history: the lines of the text the value was cut from
  commentPc,        \* "idle", "call" or "done"
  \* one call of JavaDocParser.extractFullSignature
  sigLines,         \* argument: the lines of the file
  sigStart,         \* argument: startLine
  signature,        \* the value returned, as its characters
  sigScan,          \* its locals: lineIndex, signature, parenDepth, foundOpenParen
  sigLastRead,      \* history: the largest index at which lines was read
  sigPc,            \* "idle", "call" or "done"
  \* one call of parseTagTable (TagParser.ts)
  tagRaw,           \* argument: rawTags, as its characters
  tagSignature,     \* argument: signature, as its characters
  tagDeclared,      \* history: the declaration the signature was written from
  tagWritten,       \* history: the tags rawTags was written from, in order
  tagTable,         \* the TagTable returned
  tagPc,            \* "idle", "call" or "done"
  \* one call of parseMethod, parseField or parseEnumConstant
  memberText,       \* argument: the lines of the document
  memberClassLine,  \* the line of the class symbol, as parse found it
  memberStartLine,  \* the line the member's symbol is reported at
  memberKind,       \* "method", "field" or "enumConstant"
  memberDoc,        \* hasComment, description and tags of the value returned
  memberPc,         \* "idle", "call" or "done"
  \* one call of splitByTopLevelComma (TagParser.ts)
  splitText,        \* argument: paramsStr, as its characters
  segments,         \* the array returned
  splitPc,          \* "idle", "call" or "done"
  \* the line loop of extractPrimaryTypeInfoFromText
  structText,       \* argument: text, as its characters
  structParsed,     \* what parseLineForStructure returned for each line
  structPc,         \* "idle", "call" or "done"
  \* the editor window and the view, as the provider meets them
  activeEditor,     \* vscode.window.activeTextEditor: its document, or "none"
  selectionLine,    \* editor.selection of the active editor, as its line
  received,         \* history: the upstream messages handled, with the pass
                    \* of the refresh each started (0: none)
  editorLog,        \* history: the editor changes, with the number of
                    \* selection events seen before each
  disposed,         \* history: dispose() has been called
  \* the calls of JavaDocParser.parse on one parser, with the git service
  runTree,          \* the symbols resolveSymbols returned to the call
  runAnswers,       \* what the git commands answer during the call
  runMembers,       \* steps 2 to 4.5 of parse: threw, methods, fields
  fileDoc,          \* what the call returned: threw, methods, fields, gitInfo
  blameCache,       \* gitService.cache, for the class line of the file
  runPc,            \* "idle", "ready", "git" or "done"
  runCount,         \* history: the calls of parse so far
  runLog            \* history: tree, answers received and result of every
                    \* finished call

searchVars == <<methods, cursorLine, searchResult, searchPc>>
providerVars == <<currentMethods, lastHighlightId, outbox>>
debounceVars == <<timeoutId, timers, calls, deliveries, elapsed, lastGap>>
parseVars == <<parseTree, flatMembers, classDoc, parsePc>>
cacheVars == <<openVersion, symbolCache, pendingResolves, lastReturn>>

refreshVars == <<passes, lastAccepted>>
commentVars == <<sourceLines, comment, commentSpan, commentPc>>
signatureVars == <<sigLines, sigStart, signature, sigScan, sigLastRead, sigPc>>
\* The text functions of the parser.
tagVars == <<tagRaw, tagSignature, tagDeclared, tagWritten, tagTable, tagPc>>
memberVars ==
  <<memberText, memberClassLine, memberStartLine, memberKind, memberDoc,
    memberPc>>
splitVars == <<splitText, segments, splitPc>>
\* The character scanners.
structVars == <<structText, structParsed, structPc>>
lexVars == <<splitVars, structVars>>
runVars ==
  <<runTree, runAnswers, runMembers, fileDoc, blameCache, runPc, runCount,
    runLog>>
textVars ==
  <<commentVars, signatureVars, tagVars, memberVars, lexVars, runVars>>

hostVars == <<activeEditor, selectionLine, received, editorLog, disposed>>

vars ==
  <<searchVars, providerVars, debounceVars, parseVars, cacheVars, refreshVars,
    textVars, hostVars>>

\* What the actions of one subsystem leave alone.
SearchFrame ==
  UNCHANGED <<providerVars, debounceVars, parseVars, cacheVars, refreshVars,
              textVars, hostVars>>
HighlightFrame ==
  UNCHANGED <<searchVars, parseVars, cacheVars, refreshVars, textVars, hostVars>>
ParseFrame ==
  UNCHANGED <<searchVars, providerVars, debounceVars, cacheVars, refreshVars,
              textVars, hostVars>>
CacheFrame ==
  UNCHANGED <<searchVars, providerVars, debounceVars, parseVars, refreshVars,
              textVars, hostVars>>
RefreshFrame ==
  UNCHANGED <<searchVars, debounceVars, parseVars, symbolCache,
              pendingResolves, lastReturn, textVars, hostVars>>
TextFrame ==
  UNCHANGED <<searchVars, providerVars, debounceVars, parseVars, cacheVars,
              refreshVars, hostVars>>
HostFrame ==
  UNCHANGED <<searchVars, parseVars, symbolCache, pendingResolves, lastReturn,
              textVars>>
CommentFrame ==
  TextFrame
  /\ UNCHANGED <<signatureVars, tagVars, memberVars, lexVars, runVars>>
SignatureFrame ==
  TextFrame
  /\ UNCHANGED <<commentVars, tagVars, memberVars, lexVars, runVars>>
TagFrame ==
  TextFrame
  /\ UNCHANGED <<commentVars, signatureVars, memberVars, lexVars, runVars>>
MemberFrame ==
  TextFrame
  /\ UNCHANGED <<commentVars, signatureVars, tagVars, lexVars, runVars>>
LexFrame ==
  TextFrame
  /\ UNCHANGED <<commentVars, signatureVars, tagVars, memberVars, runVars>>
RunFrame ==
  TextFrame
  /\ UNCHANGED <<commentVars, signatureVars, tagVars, memberVars, lexVars>>
SplitFrame == LexFrame /\ UNCHANGED structVars
StructFrame == LexFrame /\ UNCHANGED splitVars

(***************************************************************************)
(* Shared values.                                                          *)
(***************************************************************************)
\* MethodId(`${symbol.name}_${startLine}`)
MethodId(name, startLine) == name \o "_" \o ToString(startLine)

\* The JavaScript null of "MethodDoc | null".
NoMethod == [id |-> "null", name |-> "null", startLine |-> -1, endLine |-> -1]

\* The fields of MethodDoc the cursor index and the identity guard read.
MethodDoc(name, startLine, endLine) ==
  [id |-> MethodId(name, startLine), name |-> name,
   startLine |-> startLine, endLine |-> endLine]

(***************************************************************************)
(* binarySearchMethod                                                      *)
(***************************************************************************)
RECURSIVE SearchLoop(_, _, _, _, _)
\* The while loop of binarySearchMethod; ms is 1-based, lo and hi are the
\* code's 0-based indices.
SearchLoop(ms, line, lo, hi, res) ==
  IF lo > hi THEN res
  ELSE LET mid == (lo + hi) \div 2
           method == ms[mid + 1]
       IN IF method.startLine <= line
          THEN SearchLoop(ms, line, mid + 1, hi, method)
          ELSE SearchLoop(ms, line, lo, mid - 1, res)

\* A plausible slip: the containment check after the loop is left out.
binarySearchNoVerify(ms, line) ==
  IF Len(ms) = 0 THEN NoMethod
  ELSE SearchLoop(ms, line, 0, Len(ms) - 1, NoMethod)

binarySearchMethod(ms, line) ==
  IF Len(ms) = 0 THEN NoMethod
  ELSE LET res == SearchLoop(ms, line, 0, Len(ms) - 1, NoMethod)
       IN IF res # NoMethod /\ res.endLine >= line THEN res ELSE NoMethod

\* A span as parseMethod builds it: the name line lies inside the range.
SpansUpTo(n) == {MethodDoc("m", se[1], se[2]) :
                   se \in {p \in (0..n) \X (0..n) : p[1] <= p[2]}}

SpanSet == SpansUpTo(MaxLine)

SeqsUpTo(S, n) == UNION {[1..k -> S] : k \in 0..n}

\* parse sorts every list by startLine, so the lists the index sees are
\* ascending by startLine (not necessarily strictly, nor disjoint).
SortedByStart(ms) ==
  \A i \in 1..(Len(ms) - 1) : ms[i].startLine <= ms[i + 1].startLine

PairwiseDisjoint(ms) ==
  \A i, j \in 1..Len(ms) :
    i # j => (ms[i].endLine < ms[j].startLine \/ ms[j].endLine < ms[i].startLine)

Contains(m, line) == m.startLine <= line /\ line <= m.endLine

SearchIdle ==
  /\ methods = <<>>
  /\ cursorLine = 0
  /\ searchResult = NoMethod
  /\ searchPc = "idle"

SearchInputs ==
  /\ methods \in {ms \in SeqsUpTo(SpanSet, MaxMethods) : SortedByStart(ms)}
  /\ cursorLine \in 0..(MaxLine + 1)
  /\ searchResult = NoMethod
  /\ searchPc = "call"

\* One call binarySearchMethod(methods, cursorLine).
Search ==
  /\ searchPc = "call"
  /\ searchResult' = binarySearchMethod(methods, cursorLine)
  /\ searchPc' = "done"
  /\ UNCHANGED <<methods, cursorLine>>
  /\ SearchFrame

NextSearch == Search

(***************************************************************************)
(* SidebarProvider state read by the highlight path, and the debounce      *)
(* wrapper around updateHighlight.                                         *)
(***************************************************************************)
\* Quiet interval passed to debounce by the SidebarProvider constructor (ms).
Delay == 300
\* Milliseconds that pass in one step of the clock.
TickMs == 100
\* Selection events per behaviour.
MaxCalls == 3
\* Largest line of the file shown while selection events are replayed.
MaxCursor == 1

\* The JavaScript null of "MethodId | null" and of timeoutId.
NoId == "null"
NoTimer == 0
\* No second delivery has happened yet.
NoGap == -1

Msg(type, payload) == [type |-> type, payload |-> payload]

Min(a, b) == IF a < b THEN a ELSE b
Max(a, b) == IF a > b THEN a ELSE b

\* clearTimeout(id) leaves the other timers alone; null clears nothing.
ClearTimeoutNoop(ts, id) == ts

ClearTimeout(ts, id) == {t \in ts : t.id # id}

\* The id setTimeout returns: one no pending timer has.
FreshTimerId(ts) ==
  CHOOSE i \in 1..(MaxCalls + 1) : \A t \in ts : t.id # i

SetTimeout(ts, id, line, ms) ==
  ts \cup {[id |-> id, line |-> line, remaining |-> ms]}

\* The host runs a timer callback no earlier than its delay.
TimerDueAtOnce(t) == TRUE

TimerDue(t) == t.remaining = 0

\* method?.id ?? null
ResolveId(ms, line) ==
  LET method == binarySearchMethod(ms, line)
  IN IF method = NoMethod THEN NoId ELSE method.id

\* if (newId === this.lastHighlightId) return;
GuardNever(newId, last) == FALSE

GuardSuppresses(newId, last) == newId = last

\* The messages updateHighlight posts for a result that passed the guard.
HighlightPosts(newId) ==
  IF newId # NoId THEN <<Msg("highlightMethod", newId)>> ELSE <<>>

ProviderIdle ==
  /\ currentMethods = <<>>
  /\ lastHighlightId = NoId
  /\ outbox = <<>>

DebounceIdle ==
  /\ timeoutId = NoTimer
  /\ timers = {}
  /\ calls = <<>>
  /\ deliveries = <<>>
  /\ elapsed = Delay
  /\ lastGap = NoGap

\* The provider after a refresh published a file: any method list parse
\* can return for a file whose methods do not share lines.
HighlightStart ==
  /\ currentMethods \in
       {ms \in SeqsUpTo(SpansUpTo(MaxCursor), 2) :
          SortedByStart(ms) /\ PairwiseDisjoint(ms)}
  /\ lastHighlightId = NoId
  /\ outbox = <<>>
  /\ DebounceIdle

\* createSelectionListener -> handleSelectionChange(line) ->
\* debouncedHighlight(line): cancel the pending timer, set a new one.
HandleSelectionChange(line) ==
  /\ Len(calls) < MaxCalls
  /\ LET cleared == IF timeoutId # NoTimer
                    THEN ClearTimeout(timers, timeoutId) ELSE timers
         id == FreshTimerId(cleared)
     IN /\ timers' = SetTimeout(cleared, id, line, Delay)
        /\ timeoutId' = id
  /\ calls' = Append(calls, line)
  /\ UNCHANGED <<deliveries, elapsed, lastGap, providerVars>>
  /\ HighlightFrame

\* TickMs milliseconds pass.
Tick ==
  /\ (\E t \in timers : t.remaining > 0) \/ elapsed < Delay
  /\ timers' = {[t EXCEPT !.remaining = Max(0, t.remaining - TickMs)] : t \in timers}
  /\ elapsed' = Min(Delay, elapsed + TickMs)
  /\ UNCHANGED <<timeoutId, calls, deliveries, lastGap, providerVars>>
  /\ HighlightFrame

\* The timer callback: fn(...args), i.e. updateHighlight(LineNumber(line)),
\* then timeoutId = null.
TimerFire(t) ==
  /\ t \in timers
  /\ TimerDue(t)
  /\ timers' = timers \ {t}
  /\ timeoutId' = NoTimer
  /\ deliveries' = Append(deliveries, [line |-> t.line, atCall |-> Len(calls)])
  /\ lastGap' = IF deliveries = <<>> THEN NoGap ELSE elapsed
  /\ elapsed' = 0
  /\ LET newId == ResolveId(currentMethods, t.line)
     IN IF GuardSuppresses(newId, lastHighlightId)
        THEN UNCHANGED <<lastHighlightId, outbox>>
        ELSE /\ lastHighlightId' = newId
             /\ outbox' = outbox \o HighlightPosts(newId)
  /\ UNCHANGED <<currentMethods, calls>>
  /\ HighlightFrame

NextHighlight ==
  \/ \E line \in 0..MaxCursor : HandleSelectionChange(line)
  \/ Tick
  \/ \E t \in timers : TimerFire(t)

(***************************************************************************)
(* JavaDocParser.parse: flattening the symbol tree and assembling the      *)
(* member lists.                                                           *)
(***************************************************************************)
\* Symbols in one tree handed to parse.
MaxNodes == 3
\* Largest line a symbol of that tree is reported on.
MaxTreeLine == 1

\* vscode.SymbolKind values, by name.
CLASS_LIKE_KINDS == {"Class", "Interface", "Enum"}
METHOD_KINDS == {"Method", "Constructor", "Function"}
FIELD_KINDS == {"Field", "Constant"}

\* A plausible slip: enums are not taken as containers.
isClassLikeSymbolNoEnum(symbol) == symbol.kind \in {"Class", "Interface"}

isClassLikeSymbol(symbol) == symbol.kind \in CLASS_LIKE_KINDS
isMethodSymbol(symbol) == symbol.kind \in METHOD_KINDS
isFieldSymbol(symbol) == symbol.kind \in FIELD_KINDS
isEnumMemberSymbol(symbol) == symbol.kind = "EnumMember"

\* The branch of flattenSymbols that collects enumeration constants.
CollectsEnumConstant(symbol) == isEnumMemberSymbol(symbol)

\* A tree of DocumentSymbol is a sequence of nodes; parent is the index of
\* the node whose children list holds the node (0: the top-level list), and
\* a children list is in index order.  line is selectionRange.start.line,
\* endLine is range.end.line.
SymbolShapes ==
  {<<"Class", "C">>, <<"Method", "f">>, <<"Method", "g">>,
   <<"Field", "x">>, <<"Variable", "v">>}

Symbols ==
  {[kind |-> sh[1], name |-> sh[2], line |-> l, endLine |-> l, parent |-> par] :
     sh \in SymbolShapes, l \in 0..MaxTreeLine, par \in 0..(MaxNodes - 1)}

\* A parent comes before its children.
WellFormedTree(tree) == \A i \in 1..Len(tree) : tree[i].parent < i

RECURSIVE ChildrenFrom(_, _, _)
ChildrenFrom(tree, par, i) ==
  IF i > Len(tree) THEN <<>>
  ELSE (IF tree[i].parent = par THEN <<i>> ELSE <<>>)
       \o ChildrenFrom(tree, par, i + 1)

\* symbol.children (par > 0) or the top-level list (par = 0), as indices.
Children(tree, par) == ChildrenFrom(tree, par, 1)

\* A plausible slip: the path of the outer containers is dropped.
currentClassInnermost(parentName, name) == name

\* parentName ? `${parentName}.${symbol.name}` : symbol.name
currentClass(parentName, name) ==
  IF parentName # "" THEN parentName \o "." \o name ELSE name

RECURSIVE flattenSymbols(_, _, _)
\* flattenSymbols(symbols, parentName) with symbols given as indices.
flattenSymbols(tree, symbols, parentName) ==
  IF symbols = <<>> THEN <<>>
  ELSE
    LET symbol == tree[Head(symbols)]
        kids == Children(tree, Head(symbols))
        belongsTo == IF parentName # "" THEN parentName ELSE "Unknown"
        pushed ==
          IF isClassLikeSymbol(symbol)
          THEN IF Len(kids) > 0
               THEN flattenSymbols(tree, kids,
                                   currentClass(parentName, symbol.name))
               ELSE <<>>
          ELSE IF \/ isMethodSymbol(symbol)
                  \/ isFieldSymbol(symbol)
                  \/ CollectsEnumConstant(symbol)
               THEN <<[symbol |-> symbol, belongsTo |-> belongsTo]>>
               ELSE <<>>
    IN pushed \o flattenSymbols(tree, Tail(symbols), parentName)

\* The fields of the MethodDoc parseMethod returns that the member lists,
\* the cursor index and the view key on.
parseMethod(flattened) ==
  [id |-> MethodId(flattened.symbol.name, flattened.symbol.line),
   name |-> flattened.symbol.name,
   startLine |-> flattened.symbol.line,
   endLine |-> flattened.symbol.endLine,
   belongsTo |-> flattened.belongsTo]

parseField(flattened) ==
  [name |-> flattened.symbol.name,
   startLine |-> flattened.symbol.line,
   belongsTo |-> flattened.belongsTo]

RECURSIVE InsertByStartLine(_, _)
\* x goes behind every element that does not compare greater (the sort of
\* Array.prototype.sort is stable).
InsertByStartLine(sorted, x) ==
  IF sorted = <<>> THEN <<x>>
  ELSE IF Head(sorted).startLine - x.startLine <= 0
       THEN <<Head(sorted)>> \o InsertByStartLine(Tail(sorted), x)
       ELSE <<x>> \o sorted

RECURSIVE SortFrom(_, _)
SortFrom(done, rest) ==
  IF rest = <<>> THEN done
  ELSE SortFrom(InsertByStartLine(done, Head(rest)), Tail(rest))

\* A plausible slip: the list is returned in tree order.
SortNone(list) == list

\* .sort((a, b) => a.startLine - b.startLine)
SortByStartLine(list) == SortFrom(<<>>, list)

RECURSIVE MapFiltered(_, _, _)
\* .filter(keep).map(parseMethod | parseField); no member of a well-formed
\* tree makes the parser throw, so the null filter drops nothing.
MapFiltered(flat, wantMethods, i) ==
  IF i > Len(flat) THEN <<>>
  ELSE (IF wantMethods /\ isMethodSymbol(flat[i].symbol)
        THEN <<parseMethod(flat[i])>>
        ELSE IF ~wantMethods /\ isFieldSymbol(flat[i].symbol)
             THEN <<parseField(flat[i])>>
             ELSE <<>>)
       \o MapFiltered(flat, wantMethods, i + 1)

\* Steps 3, 4 and 4.5 of parse.
AssembleMembers(tree) ==
  LET flattenedSymbols == flattenSymbols(tree, Children(tree, 0), "")
  IN [methods |-> SortByStartLine(MapFiltered(flattenedSymbols, TRUE, 1)),
      fields |-> SortByStartLine(MapFiltered(flattenedSymbols, FALSE, 1))]

\* Symbols in one tree handed to flattenSymbols when nesting is explored.
MaxNested == 4

\* Symbols of every classification; flattenSymbols reads no line.
NestedShapes ==
  {<<"Class", "C">>, <<"Enum", "E">>, <<"Method", "f">>, <<"Field", "x">>,
   <<"EnumMember", "A">>, <<"Variable", "v">>}

NestedSymbols ==
  {[kind |-> sh[1], name |-> sh[2], line |-> 0, endLine |-> 0, parent |-> par] :
     sh \in NestedShapes, par \in 0..(MaxNested - 1)}

ParseIdle ==
  /\ parseTree = <<>>
  /\ flatMembers = <<>>
  /\ classDoc = [methods |-> <<>>, fields |-> <<>>]
  /\ parsePc = "idle"

\* resolveSymbols has returned: any tree of the provider.
ParseInputs ==
  /\ \E k \in 0..MaxNodes : parseTree \in [1..k -> Symbols]
  /\ WellFormedTree(parseTree)
  /\ flatMembers = <<>>
  /\ classDoc = [methods |-> <<>>, fields |-> <<>>]
  /\ parsePc = "ready"

\* resolveSymbols has returned a tree with symbols nested in one another.
NestedInputs ==
  /\ \E k \in 0..MaxNested : parseTree \in [1..k -> NestedSymbols]
  /\ WellFormedTree(parseTree)
  /\ flatMembers = <<>>
  /\ classDoc = [methods |-> <<>>, fields |-> <<>>]
  /\ parsePc = "ready"

\* parse, from the flattening to the two sorted member lists.
Parse ==
  /\ parsePc = "ready"
  /\ flatMembers' = flattenSymbols(parseTree, Children(parseTree, 0), "")
  /\ classDoc' = AssembleMembers(parseTree)
  /\ parsePc' = "done"
  /\ UNCHANGED parseTree
  /\ ParseFrame

NextParse == Parse

(***************************************************************************)
(* resolveSymbols with the per-version symbol cache, and the documents of  *)
(* the workspace.                                                          *)
(***************************************************************************)
\* Largest document.version reached by editing.
MaxVersion == 2
\* Calls of resolveSymbols that await the provider at the same time.
MaxPending == 2

\* The cache is keyed by uri and a call reads and writes the entry of its
\* own uri only, so one document shows every behaviour of an entry.
Uris == {"A.java"}

\* getOpenDocumentVersion returns undefined.
NotOpen == 0
\* symbolCache.get returns undefined.
NoEntry == [version |-> -1, symbols |-> <<>>]

\* The DocumentSymbol[] the language service computes for a document: it
\* describes the text the document has when the service answers.
TreeOf(uri, version) == <<[uri |-> uri, version |-> version]>>

\* What executeCommand can resolve to: an array of DocumentSymbol, an empty
\* array, an array of something else, or no array at all.
RawResults(uri, version) ==
  {[isArray |-> TRUE, items |-> TreeOf(uri, version), firstIsSymbol |-> TRUE],
   [isArray |-> TRUE, items |-> <<>>, firstIsSymbol |-> FALSE],
   [isArray |-> TRUE, items |-> TreeOf(uri, version), firstIsSymbol |-> FALSE],
   [isArray |-> FALSE, items |-> <<>>, firstIsSymbol |-> FALSE]}

normalizeDocumentSymbols(raw) ==
  IF ~raw.isArray \/ Len(raw.items) = 0 THEN <<>>
  ELSE IF ~raw.firstIsSymbol THEN <<>>
       ELSE raw.items

getOpenDocumentVersion(uri) == openVersion[uri]

\* A plausible slip: any entry of the document is taken.
CacheHitAnyVersion(entry, version) == entry # NoEntry

\* cached?.version === version
CacheHit(entry, version) == entry # NoEntry /\ entry.version = version

\* clearSymbolCache(uri)
clearSymbolCache(cache, uri) == [cache EXCEPT ![uri] = NoEntry]

\* No call has returned yet.
NoReturn == [uri |-> "", fromCache |-> FALSE, symbols |-> <<>>]

CacheIdle ==
  /\ openVersion = [u \in Uris |-> NotOpen]
  /\ symbolCache = [u \in Uris |-> NoEntry]
  /\ pendingResolves = EmptyBag
  /\ lastReturn = NoReturn

\* The user opens a document.
OpenDocument(uri) ==
  /\ openVersion[uri] = NotOpen
  /\ openVersion' = [openVersion EXCEPT ![uri] = 1]
  /\ UNCHANGED <<symbolCache, pendingResolves, lastReturn>>
  /\ CacheFrame

\* The user edits an open document: document.version grows.
EditDocument(uri) ==
  /\ openVersion[uri] # NotOpen
  /\ openVersion[uri] < MaxVersion
  /\ openVersion' = [openVersion EXCEPT ![uri] = @ + 1]
  /\ UNCHANGED <<symbolCache, pendingResolves, lastReturn>>
  /\ CacheFrame

\* The document is closed and the close listener purges its cache entry.
CloseDocument(uri) ==
  /\ openVersion[uri] # NotOpen
  /\ openVersion' = [openVersion EXCEPT ![uri] = NotOpen]
  /\ symbolCache' = clearSymbolCache(symbolCache, uri)
  /\ UNCHANGED <<pendingResolves, lastReturn>>
  /\ CacheFrame

\* resolveSymbols(uri) up to its return from the cache or its await; the
\* call keeps uri and the version it read.
ResolveStart(uri) ==
  LET version == getOpenDocumentVersion(uri)
      cached == symbolCache[uri]
  IN IF version # NotOpen /\ CacheHit(cached, version)
     THEN /\ lastReturn' =
               [uri |-> uri, fromCache |-> TRUE, symbols |-> cached.symbols]
          /\ UNCHANGED <<openVersion, symbolCache, pendingResolves>>
          /\ CacheFrame
     ELSE /\ BagCardinality(pendingResolves) < MaxPending
          /\ pendingResolves' =
               pendingResolves (+) SetToBag({[uri |-> uri, version |-> version]})
          /\ UNCHANGED <<openVersion, symbolCache, lastReturn>>
          /\ CacheFrame

\* The language service answers a call: normalise, store under the version
\* read before the await, return.
ProviderAnswers(call, raw) ==
  /\ BagIn(call, pendingResolves)
  /\ pendingResolves' = pendingResolves (-) SetToBag({call})
  /\ LET symbols == normalizeDocumentSymbols(raw)
     IN /\ symbolCache' =
             IF call.version # NotOpen
             THEN [symbolCache EXCEPT ![call.uri] =
                     [version |-> call.version, symbols |-> symbols]]
             ELSE symbolCache
        /\ lastReturn' =
             [uri |-> call.uri, fromCache |-> FALSE, symbols |-> symbols]
  /\ UNCHANGED openVersion
  /\ CacheFrame

\* executeCommand rejects: the catch block returns [].
ProviderThrows(call) ==
  /\ BagIn(call, pendingResolves)
  /\ pendingResolves' = pendingResolves (-) SetToBag({call})
  /\ lastReturn' = [uri |-> call.uri, fromCache |-> FALSE, symbols |-> <<>>]
  /\ UNCHANGED <<openVersion, symbolCache>>
  /\ CacheFrame

NextCache ==
  \/ \E uri \in Uris : OpenDocument(uri)
  \/ \E uri \in Uris : EditDocument(uri)
  \/ \E uri \in Uris : CloseDocument(uri)
  \/ \E uri \in Uris : ResolveStart(uri)
  \/ \E call \in BagToSet(pendingResolves) :
       \E raw \in RawResults(call.uri, openVersion[call.uri]) :
         ProviderAnswers(call, raw)
  \/ \E call \in BagToSet(pendingResolves) : ProviderThrows(call)

(***************************************************************************)
(* SidebarProvider.refresh: the parse passes in flight.                    *)
(***************************************************************************)
\* Calls of refresh per behaviour.
MaxPasses == 2

\* The symbol tree the Java language service reports for a document: one
\* class with one method whose line moves as the document is edited.
DocTree(uri, version) ==
  <<[kind |-> "Class", name |-> "C", line |-> 0, endLine |-> version + 1,
     parent |-> 0],
    [kind |-> "Method", name |-> "f", line |-> version,
     endLine |-> version, parent |-> 1]>>

\* How executeCommand('vscode.executeDocumentSymbolProvider', uri) can
\* settle: with a tree, with undefined, or rejected.
ProviderOutcomes(uri) ==
  {[threw |-> FALSE, defined |-> TRUE,
    symbols |-> DocTree(uri, openVersion[uri])],
   [threw |-> FALSE, defined |-> FALSE, symbols |-> <<>>],
   [threw |-> TRUE, defined |-> FALSE, symbols |-> <<>>]}

\* A tree whose class symbol carries no range: normalizeDocumentSymbols lets
\* it through (it looks at kind and children of the first node only).
UnrangedTree == <<[kind |-> "Class", name |-> "C", parent |-> 0]>>

\* What resolveSymbols can be answered during a refresh.
RefreshOutcomes(uri) ==
  ProviderOutcomes(uri)
    \cup {[threw |-> FALSE, defined |-> TRUE, symbols |-> UnrangedTree]}

\* parse: classSymbol.range.start.line throws for a class symbol without
\* range, and the promise of parse rejects.
parseRejects(symbols) ==
  \E i \in 1..Len(symbols) :
    symbols[i].kind = "Class" /\ "line" \notin DOMAIN symbols[i]

\* A plausible slip: the catch block empties the method list.
ParseErrorClears(published) == <<>>

\* catch (error) { console.error(...) }: currentMethods after a parse error
ParseErrorKeeps(published) == published

\* A plausible slip: the catch block lets the error through.
resolveSymbolsRethrows(outcome) ==
  [threw |-> outcome.threw,
   symbols |-> IF outcome.defined THEN outcome.symbols ELSE <<>>]

\* resolveSymbols: "symbols ?? []", and [] from the catch block.
resolveSymbols(outcome) ==
  [threw |-> FALSE,
   symbols |-> IF ~outcome.threw /\ outcome.defined
               THEN outcome.symbols ELSE <<>>]

EmptyClassDoc == [methods |-> <<>>, fields |-> <<>>]

\* A call of refresh(document) that has reached the await inside
\* resolveSymbols.
NewPass(uri) ==
  [doc |-> uri, pc |-> "symbols", failed |-> FALSE, rejected |-> FALSE,
   classDoc |-> EmptyClassDoc]

RefreshIdle ==
  /\ passes = <<>>
  /\ lastAccepted = 0

\* The extension is active, the view is resolved and a Java document is
\* open; nothing has been parsed yet.
RefreshStart ==
  /\ ProviderIdle
  /\ RefreshIdle
  /\ openVersion = [u \in Uris |-> 1]
  /\ symbolCache = [u \in Uris |-> NoEntry]
  /\ pendingResolves = EmptyBag
  /\ lastReturn = NoReturn

\* The save listener or the editor-change listener calls refresh(document)
\* with a Java document: refresh runs up to the await inside resolveSymbols.
Refresh(uri) ==
  /\ Len(passes) < MaxPasses
  /\ openVersion[uri] # NotOpen
  /\ passes' = Append(passes, NewPass(uri))
  /\ UNCHANGED <<providerVars, openVersion, lastAccepted>>
  /\ RefreshFrame

\* The provider settles for pass p: resolveSymbols returns and parse runs up
\* to the await of getGitInfo; if resolveSymbols rejects, so does parse, and
\* the catch block of refresh ends the pass.
SymbolsSettle(p, outcome) ==
  /\ p \in 1..Len(passes)
  /\ passes[p].pc = "symbols"
  /\ LET resolved == resolveSymbols(outcome)
     IN IF resolved.threw \/ parseRejects(resolved.symbols)
        THEN /\ passes' = [passes EXCEPT ![p].pc = "done",
                                         ![p].failed = outcome.threw,
                                         ![p].rejected = TRUE]
             /\ currentMethods' = ParseErrorKeeps(currentMethods)
        ELSE /\ passes' = [passes EXCEPT
                             ![p].pc = "git",
                             ![p].failed = outcome.threw,
                             ![p].classDoc = AssembleMembers(resolved.symbols)]
             /\ UNCHANGED currentMethods
  /\ UNCHANGED <<lastHighlightId, outbox, openVersion, lastAccepted>>
  /\ RefreshFrame

\* A plausible slip: the guard of updateHighlight is not reset.
KeepHighlight(last) == last

\* this.lastHighlightId = null
ResetHighlight(last) == NoId

\* getGitInfo settles for pass p (it never rejects): parse returns and
\* refresh stores and posts the ClassDoc.
GitInfoSettles(p) ==
  /\ p \in 1..Len(passes)
  /\ passes[p].pc = "git"
  /\ currentMethods' = passes[p].classDoc.methods
  /\ lastHighlightId' = ResetHighlight(lastHighlightId)
  /\ outbox' = Append(outbox, Msg("updateView", passes[p].classDoc))
  /\ passes' = [passes EXCEPT ![p].pc = "done"]
  /\ lastAccepted' = p
  /\ UNCHANGED openVersion
  /\ RefreshFrame

NextRefresh ==
  \/ \E uri \in Uris : Refresh(uri)
  \/ \E uri \in Uris : EditDocument(uri)
  \/ \E p \in 1..Len(passes) :
       \E outcome \in RefreshOutcomes(passes[p].doc) : SymbolsSettle(p, outcome)
  \/ \E p \in 1..Len(passes) : GitInfoSettles(p)

\* Messages posted per behaviour when selections settle between passes.
MaxOutbox == 3

\* A debounced selection settles while passes are in flight:
\* updateHighlight(line).
UpdateHighlight(line) ==
  /\ Len(outbox) < MaxOutbox
  /\ LET newId == ResolveId(currentMethods, line)
     IN IF GuardSuppresses(newId, lastHighlightId)
        THEN UNCHANGED <<lastHighlightId, outbox>>
        ELSE /\ lastHighlightId' = newId
             /\ outbox' = outbox \o HighlightPosts(newId)
  /\ UNCHANGED <<currentMethods, passes, lastAccepted, openVersion>>
  /\ RefreshFrame

NextRefreshFrame ==
  \/ NextRefresh
  \/ \E line \in 0..MaxCursor : UpdateHighlight(line)

(***************************************************************************)
(* JavaDocParser.extractComment: the comment block above a declaration.    *)
(***************************************************************************)
\* Lines of text above the target line.
MaxAbove == 4

\* A line is a sequence of tokens: " " is white space, "@A" an annotation
\* name with its at-sign, "x" any other text, and "(", ")", "/**", "/*",
\* "*/" are themselves.
TextLines ==
  {<<>>,                        \* a blank line
   <<" ", "@A">>,               \* an annotation
   <<"@A", "(">>,               \* an annotation whose arguments go on
   <<"x", ")">>,                \* the end of an argument list
   <<"x">>,                     \* code, or text inside a comment
   <<" ", "/**">>,              \* the opener of a block
   <<" ", "*/", " ">>,          \* the closer of a block
   <<"/**", "x", "*/">>,        \* a block on one line
   <<"x", "*/">>,               \* text, then a closer
   <<"/*", "x", "*/">>,         \* a plain block comment on one line
   <<"@A", "/*", "x", "*/">>}   \* an annotation, then a plain comment

RECURSIVE TrimStart(_)
TrimStart(line) ==
  IF line # <<>> /\ Head(line) = " " THEN TrimStart(Tail(line)) ELSE line

RECURSIVE TrimEnd(_)
TrimEnd(line) ==
  IF line # <<>> /\ line[Len(line)] = " "
  THEN TrimEnd(SubSeq(line, 1, Len(line) - 1)) ELSE line

\* String.prototype.trim
Trim(line) == TrimEnd(TrimStart(line))

\* String.prototype.endsWith and includes, for a one-token needle
EndsWith(line, token) == line # <<>> /\ line[Len(line)] = token
Includes(line, token) == \E i \in 1..Len(line) : line[i] = token

\* line.match(/\(/g)?.length ?? 0
CountOf(line, token) == Cardinality({i \in 1..Len(line) : line[i] = token})

\* /^\s*@[\w.]+/.test(line)
annotationPattern(line) ==
  LET rest == TrimStart(line) IN rest # <<>> /\ Head(rest) = "@A"

\* lines[n] and lines.slice(from, to) with the 0-based indices of the code
LineAt(lines, n) == lines[n + 1]
Slice(lines, from, to) == SubSeq(lines, from + 1, to)

RECURSIVE SkipArguments(_, _, _)
\* while (i < lines.length && parenDepth > 0): the index the loop ends at
SkipArguments(lines, i, parenDepth) ==
  IF i < Len(lines) /\ parenDepth > 0
  THEN SkipArguments(lines, i + 1,
                     parenDepth + CountOf(LineAt(lines, i), "(")
                                - CountOf(LineAt(lines, i), ")"))
  ELSE i

RECURSIVE OnlyBlankOrAnnotationsFrom(_, _)
OnlyBlankOrAnnotationsFrom(lines, i) ==
  IF i >= Len(lines) THEN TRUE
  ELSE LET line == Trim(LineAt(lines, i))
       IN IF line = <<>> THEN OnlyBlankOrAnnotationsFrom(lines, i + 1)
          ELSE IF ~annotationPattern(line) THEN FALSE
          ELSE OnlyBlankOrAnnotationsFrom(
                 lines,
                 SkipArguments(lines, i + 1,
                               CountOf(LineAt(lines, i), "(")
                               - CountOf(LineAt(lines, i), ")")))

onlyBlankOrAnnotations(lines) == OnlyBlankOrAnnotationsFrom(lines, 0)

\* A plausible slip: the search for the opener walks through other blocks.
AnotherBlockEndsNever(line, startLine, endLine) == FALSE

\* if (startLine !== endLine && line.includes("*/")) break;
AnotherBlockEnds(line, startLine, endLine) ==
  startLine # endLine /\ Includes(line, "*/")

NoLine == -1

RECURSIVE FindOpener(_, _, _)
\* The inner loop: the line of the opener, NoLine if the loop ends without.
FindOpener(lines, endLine, startLine) ==
  IF startLine < 0 THEN NoLine
  ELSE LET line == LineAt(lines, startLine)
       IN IF Includes(line, "/**") THEN startLine
          ELSE IF AnotherBlockEnds(line, startLine, endLine) THEN NoLine
          ELSE FindOpener(lines, endLine, startLine - 1)

NoSpan == [startLine |-> NoLine, endLine |-> NoLine]

RECURSIVE ScanUpward(_, _, _)
\* The outer loop, from endLine down to 0: the span that is returned.
ScanUpward(lines, targetLine, endLine) ==
  IF endLine < 0 THEN NoSpan
  ELSE LET trimmed == Trim(LineAt(lines, endLine))
       IN IF trimmed = <<>> \/ ~EndsWith(trimmed, "*/")
          THEN ScanUpward(lines, targetLine, endLine - 1)
          ELSE IF ~onlyBlankOrAnnotations(Slice(lines, endLine + 1, targetLine))
          THEN ScanUpward(lines, targetLine, endLine - 1)
          ELSE LET startLine == FindOpener(lines, endLine, endLine)
               IN IF startLine # NoLine
                  THEN [startLine |-> startLine, endLine |-> endLine]
                  ELSE ScanUpward(lines, targetLine, endLine - 1)

\* lines.slice(startLine, endLine + 1).join("\n"), kept as lines; "" is <<>>
CommentText(lines, span) ==
  IF span = NoSpan THEN <<>>
  ELSE Slice(lines, span.startLine, span.endLine + 1)

extractComment(lines, targetLine) ==
  CommentText(lines, ScanUpward(lines, targetLine, targetLine - 1))

CommentIdle ==
  /\ sourceLines = <<>>
  /\ comment = <<>>
  /\ commentSpan = NoSpan
  /\ commentPc = "idle"

\* extractComment is called for a declaration on the line after sourceLines.
CommentInputs ==
  /\ \E n \in 0..MaxAbove : sourceLines \in [1..n -> TextLines]
  /\ comment = <<>>
  /\ commentSpan = NoSpan
  /\ commentPc = "call"

ExtractComment ==
  /\ commentPc = "call"
  /\ comment' = extractComment(sourceLines, Len(sourceLines))
  /\ commentSpan' = ScanUpward(sourceLines, Len(sourceLines),
                               Len(sourceLines) - 1)
  /\ commentPc' = "done"
  /\ UNCHANGED sourceLines
  /\ CommentFrame

NextComment == ExtractComment

(***************************************************************************)
(* JavaDocParser.extractFullSignature: the declaration up to the end of    *)
(* its parameter list.                                                     *)
(***************************************************************************)
\* Lines between the line that opens a parameter list and the line that
\* closes it.
MaxFill == 16

\* The most lines the scan goes past startLine.
MAX_SIGNATURE_LINES == 15

\* A line is a sequence of characters; "f", "x" and "throws" stand for
\* words, " " and "\t" are white space.
HeadLines ==
  {<<"f", "(">>,                                      \* the list goes on
   <<"\t", "f", " ", " ", "(", "x", ")", " ", "{">>,  \* all on one line
   <<"f", "(", "x", "(", ")">>,                       \* nested, goes on
   <<")", "f", "(", "(">>,                            \* a stray closer
   <<"x", " ", "f">>}                                 \* no list at all

FillLines == {<<" ", " ", "x", ",">>, <<>>}

TailLines ==
  {<<"\t", "x", ")", " ", "throws", " ", "x", " ", "{">>,
   <<")", ")">>,
   <<"x">>}

RECURSIVE Repeat(_, _)
Repeat(line, n) == IF n = 0 THEN <<>> ELSE <<line>> \o Repeat(line, n - 1)

IsSpace(char) == char \in {" ", "\t", "\n"}

\* The positions of text that start a run of white space or hold another
\* character.
RunStarts(text) ==
  {i \in 1..Len(text) : ~(IsSpace(text[i]) /\ i > 1 /\ IsSpace(text[i - 1]))}

\* .replace(/\s+/g, " ")
CollapseSpaces(text) ==
  LET starts == RunStarts(text)
      at(k) == CHOOSE i \in starts :
                 Cardinality({j \in starts : j <= i}) = k
  IN [k \in 1..Cardinality(starts) |->
        IF IsSpace(text[at(k)]) THEN " " ELSE text[at(k)]]

\* .trim()
TrimSpaces(text) ==
  LET inked == {i \in 1..Len(text) : ~IsSpace(text[i])}
  IN IF inked = {} THEN <<>>
     ELSE SubSeq(text,
                 CHOOSE i \in inked : \A j \in inked : i <= j,
                 CHOOSE i \in inked : \A j \in inked : j <= i)

\* A plausible slip: the text is trimmed and its inner runs are kept.
NormalizeTrimOnly(text) == TrimSpaces(text)

\* signature.replace(/\s+/g, " ").trim()
Normalize(text) == TrimSpaces(CollapseSpaces(text))

RECURSIVE ScanLine(_, _, _, _, _)
\* for (const char of line): the locals after the line, or at the return
\* inside it.
ScanLine(line, pos, text, parenDepth, foundOpenParen) ==
  IF pos > Len(line)
  THEN [returned |-> FALSE, text |-> text, parenDepth |-> parenDepth,
        foundOpenParen |-> foundOpenParen]
  ELSE IF line[pos] = "("
  THEN ScanLine(line, pos + 1, Append(text, line[pos]), parenDepth + 1, TRUE)
  ELSE IF line[pos] = ")" /\ foundOpenParen /\ parenDepth - 1 = 0
  THEN [returned |-> TRUE, text |-> Append(text, line[pos]),
        parenDepth |-> 0, foundOpenParen |-> TRUE]
  ELSE IF line[pos] = ")"
  THEN ScanLine(line, pos + 1, Append(text, line[pos]), parenDepth - 1,
                foundOpenParen)
  ELSE ScanLine(line, pos + 1, Append(text, line[pos]), parenDepth,
                foundOpenParen)

\* A plausible slip: the ceiling is counted from the top of the file.
CeilingReachedFromTop(lineIndex, startLine) ==
  lineIndex > MAX_SIGNATURE_LINES

\* if (lineIndex - startLine > MAX_SIGNATURE_LINES) break;
CeilingReached(lineIndex, startLine) ==
  lineIndex - startLine > MAX_SIGNATURE_LINES

\* let signature = ""; let parenDepth = 0; let foundOpenParen = false;
\* let lineIndex = startLine;
ScanStart(startLine) ==
  [lineIndex |-> startLine, text |-> <<>>, parenDepth |-> 0,
   foundOpenParen |-> FALSE]

\* One pass of while (lineIndex < lines.length), or the return after the
\* loop: whether the function returns, what it returns, its locals after
\* the pass and whether the pass read lines[lineIndex].
ScanPass(lines, startLine, scan) ==
  IF ~(scan.lineIndex < Len(lines))
  THEN [returns |-> TRUE, value |-> Normalize(scan.text), scan |-> scan,
        read |-> FALSE]
  ELSE LET line == ScanLine(LineAt(lines, scan.lineIndex), 1, scan.text,
                            scan.parenDepth, scan.foundOpenParen)
       IN IF line.returned
          THEN [returns |-> TRUE, value |-> Normalize(line.text),
                scan |-> scan, read |-> TRUE]
          ELSE IF CeilingReached(scan.lineIndex + 1, startLine)
          THEN [returns |-> TRUE,
                value |-> Normalize(Append(line.text, " ")),
                scan |-> scan, read |-> TRUE]
          ELSE [returns |-> FALSE, value |-> <<>>,
                scan |-> [lineIndex |-> scan.lineIndex + 1,
                          text |-> Append(line.text, " "),
                          parenDepth |-> line.parenDepth,
                          foundOpenParen |-> line.foundOpenParen],
                read |-> TRUE]

RECURSIVE ScanFrom(_, _, _)
ScanFrom(lines, startLine, scan) ==
  IF ScanPass(lines, startLine, scan).returns
  THEN ScanPass(lines, startLine, scan).value
  ELSE ScanFrom(lines, startLine, ScanPass(lines, startLine, scan).scan)

extractFullSignature(lines, startLine) ==
  ScanFrom(lines, startLine, ScanStart(startLine))

SignatureIdle ==
  /\ sigLines = <<>>
  /\ sigStart = 0
  /\ signature = <<>>
  /\ sigScan = ScanStart(0)
  /\ sigLastRead = -1
  /\ sigPc = "idle"

\* parseMethod calls extractFullSignature(lines, startLine) for a method
\* symbol: the file holds the declaration from startLine on.
SignatureArguments(lines, startLine) ==
  \E head \in HeadLines, fill \in FillLines, n \in 0..MaxFill,
     ending \in SUBSET TailLines, before \in 0..1 :
    /\ Cardinality(ending) <= 1
    /\ startLine = before
    /\ lines = Repeat(<<"x">>, before) \o <<head>> \o Repeat(fill, n)
               \o (IF ending = {} THEN <<>>
                   ELSE <<CHOOSE t \in ending : TRUE>>)
               \o <<<<"x", "(", ")">>>>

SignatureInputs ==
  /\ SignatureArguments(sigLines, sigStart)
  /\ signature = <<>>
  /\ sigScan = ScanStart(sigStart)
  /\ sigLastRead = -1
  /\ sigPc = "call"

\* A call of extractFullSignature, pass by pass.
ExtractFullSignature ==
  /\ sigPc = "call"
  /\ LET pass == ScanPass(sigLines, sigStart, sigScan)
     IN /\ sigScan' = pass.scan
        /\ sigLastRead' = IF pass.read THEN sigScan.lineIndex ELSE sigLastRead
        /\ signature' = pass.value
        /\ sigPc' = IF pass.returns THEN "done" ELSE "call"
  /\ UNCHANGED <<sigLines, sigStart>>
  /\ SignatureFrame

NextSignature == ExtractFullSignature


(***************************************************************************)
(* TagParser.ts: parseTagTable and the types it recovers from the          *)
(* signature.  A text is a sequence of characters in which a word stands   *)
(* for a run of \w characters and "@param", "@return", ... for a tag name  *)
(* with its "@".                                                           *)
(***************************************************************************)
\* The most tags in a tag region and the most parameters in a signature.
MaxTags == 2
MaxParams == 2

Punctuation ==
  {"(", ")", "<", ">", "[", "]", ",", ".", "...", "@", "{", "}", "?",
   ";", "=", "*", "/**", "/*", "*/", "@A", " ", "\t", "\n"}

TagTokens ==
  {"@param", "@return", "@returns", "@throws", "@exception", "@since",
   "@author", "@deprecated", "@see"}

\* \w+
IsWord(token) == token \notin Punctuation /\ token \notin TagTokens

\* null | T
Null == <<>>
Some(value) == <<value>>

Void == <<"void">>
UnknownType == <<"unknown">>

EMPTY_TAG_TABLE ==
  [params |-> <<>>, returns |-> Null, throws |-> <<>>, since |-> Null,
   author |-> Null, deprecated |-> Null, see |-> <<>>]

\* String.prototype.indexOf and lastIndexOf, counted from 1; 0 for -1.
IndexOf(text, token) ==
  IF \E i \in 1..Len(text) : text[i] = token
  THEN CHOOSE i \in 1..Len(text) :
         text[i] = token /\ \A j \in 1..(i - 1) : text[j] # token
  ELSE 0

LastIndexOf(text, token) ==
  IF \E i \in 1..Len(text) : text[i] = token
  THEN CHOOSE i \in 1..Len(text) :
         text[i] = token /\ \A j \in (i + 1)..Len(text) : text[j] # token
  ELSE 0

\* String.prototype.trimStart
TrimLeft(text) ==
  LET inked == {i \in 1..Len(text) : ~IsSpace(text[i])}
  IN IF inked = {} THEN <<>>
     ELSE SubSeq(text, CHOOSE i \in inked : \A j \in inked : i <= j,
                 Len(text))

\* depth++ on opener, depth-- on closer, from the opener at from: the index
\* at which the depth is back at 0, 0 when there is none.
MatchingClose(text, from, opener, closer) ==
  LET depthAt(i) == CountOf(SubSeq(text, from, i), opener)
                    - CountOf(SubSeq(text, from, i), closer)
      closes == {i \in from..Len(text) : text[i] = closer /\ depthAt(i) = 0}
  IN IF closes = {} THEN 0
     ELSE CHOOSE i \in closes : \A j \in closes : i <= j

extractParenContent(sig) ==
  LET openIndex == IndexOf(sig, "(")
      closeIndex == MatchingClose(sig, openIndex, "(", ")")
  IN IF openIndex = 0 THEN Null
     ELSE IF closeIndex = 0
          THEN TrimSpaces(SubSeq(sig, openIndex + 1, Len(sig)))
          ELSE TrimSpaces(SubSeq(sig, openIndex + 1, closeIndex - 1))

\* A plausible slip: the depth counters are not consulted.
AtAnyDepth(angleBracketDepth, parenDepth) == TRUE

\* angleBracketDepth === 0 && parenDepth === 0
AtTopLevel(angleBracketDepth, parenDepth) ==
  angleBracketDepth = 0 /\ parenDepth = 0

RECURSIVE SplitFrom(_, _, _, _, _)
\* for (const char of paramsStr), then the push of the last piece
SplitFrom(text, pos, current, angleBracketDepth, parenDepth) ==
  IF pos > Len(text)
  THEN IF TrimSpaces(current) # <<>> THEN <<current>> ELSE <<>>
  ELSE IF text[pos] = "<"
  THEN SplitFrom(text, pos + 1, Append(current, "<"),
                 angleBracketDepth + 1, parenDepth)
  ELSE IF text[pos] = ">"
  THEN SplitFrom(text, pos + 1, Append(current, ">"),
                 angleBracketDepth - 1, parenDepth)
  ELSE IF text[pos] = "("
  THEN SplitFrom(text, pos + 1, Append(current, "("),
                 angleBracketDepth, parenDepth + 1)
  ELSE IF text[pos] = ")"
  THEN SplitFrom(text, pos + 1, Append(current, ")"),
                 angleBracketDepth, parenDepth - 1)
  ELSE IF text[pos] = "," /\ AtTopLevel(angleBracketDepth, parenDepth)
  THEN <<current>>
       \o SplitFrom(text, pos + 1, <<>>, angleBracketDepth, parenDepth)
  ELSE SplitFrom(text, pos + 1, Append(current, text[pos]),
                 angleBracketDepth, parenDepth)

splitByTopLevelComma(paramsStr) == SplitFrom(paramsStr, 1, <<>>, 0, 0)

\* text starts with "@": what follows the annotation and its arguments
stripLeadingAnnotation(text) ==
  LET rest == {i \in 2..Len(text) : ~(IsWord(text[i]) \/ text[i] = ".")}
      i == IF rest = {} THEN Len(text) + 1
           ELSE CHOOSE r \in rest : \A q \in rest : r <= q
      closeIndex == MatchingClose(text, i, "(", ")")
  IN IF i <= Len(text) /\ text[i] = "("
     THEN IF closeIndex = 0 THEN <<>>
          ELSE SubSeq(text, closeIndex + 1, Len(text))
     ELSE SubSeq(text, i, Len(text))

PARAM_MODIFIERS == {"final"}

RECURSIVE stripAnnotationsAndModifiers(_)
stripAnnotationsAndModifiers(remaining) ==
  IF remaining = <<>> THEN remaining
  ELSE IF TrimLeft(remaining) # <<>> /\ Head(TrimLeft(remaining)) = "@"
  THEN stripAnnotationsAndModifiers(stripLeadingAnnotation(TrimLeft(remaining)))
  ELSE IF /\ TrimLeft(remaining) # <<>>
          /\ Head(TrimLeft(remaining)) \in PARAM_MODIFIERS
          /\ \/ Len(TrimLeft(remaining)) = 1
             \/ IsSpace(TrimLeft(remaining)[2])
  THEN stripAnnotationsAndModifiers(Tail(TrimLeft(remaining)))
  ELSE TrimLeft(remaining)

\* A Map<string, string> as the sequence of its set calls; get returns the
\* value of the last set of the key.
MapHas(map, key) == \E i \in 1..Len(map) : map[i].name = key
MapGet(map, key) ==
  map[CHOOSE i \in 1..Len(map) :
        map[i].name = key /\ \A j \in (i + 1)..Len(map) : map[j].name # key]
        .type

RECURSIVE SetParams(_, _)
\* for (const param of params)
SetParams(params, map) ==
  IF params = <<>> THEN map
  ELSE LET trimmed == TrimSpaces(Head(params))
           cleaned == stripAnnotationsAndModifiers(trimmed)
           lastSpace == LastIndexOf(cleaned, " ")
           type == TrimSpaces(SubSeq(cleaned, 1, lastSpace - 1))
           name == TrimSpaces(SubSeq(cleaned, lastSpace + 1, Len(cleaned)))
       IN IF trimmed = <<>> \/ lastSpace = 0 \/ name = <<>> \/ type = <<>>
          THEN SetParams(Tail(params), map)
          ELSE SetParams(Tail(params),
                         Append(map, [name |-> name, type |-> type]))

parseSignatureParams(sig) ==
  IF extractParenContent(sig) = Null THEN <<>>
  ELSE SetParams(splitByTopLevelComma(extractParenContent(sig)), <<>>)

\* signature.replace(/\{.*$/, "").trim()
RemoveBody(sig) ==
  IF IndexOf(sig, "{") = 0 THEN TrimSpaces(sig)
  ELSE TrimSpaces(SubSeq(sig, 1, IndexOf(sig, "{") - 1))

\* The first index from pos on that holds no white space.
SkipSpaces(text, pos) ==
  LET inked == {i \in pos..Len(text) : ~IsSpace(text[i])}
  IN IF inked = {} THEN Len(text) + 1
     ELSE CHOOSE i \in inked : \A j \in inked : i <= j

\* /^\w+\s+\w+\s*\(/ at pos
TypeNameParenAt(text, pos) ==
  /\ pos + 1 <= Len(text) /\ IsWord(text[pos]) /\ IsSpace(text[pos + 1])
  /\ SkipSpaces(text, pos + 1) <= Len(text)
  /\ IsWord(text[SkipSpaces(text, pos + 1)])
  /\ SkipSpaces(text, SkipSpaces(text, pos + 1) + 1) <= Len(text)
  /\ text[SkipSpaces(text, SkipSpaces(text, pos + 1) + 1)] = "("

removeMethodGenericDecl(sig) ==
  LET openAngle == IndexOf(sig, "<")
      openParen == IndexOf(sig, "(")
      closeAngle == MatchingClose(sig, openAngle, "<", ">")
      afterGeneric == TrimLeft(SubSeq(sig, closeAngle + 1, Len(sig)))
  IN IF openAngle = 0 \/ openParen = 0 \/ openAngle > openParen THEN sig
     ELSE IF closeAngle = 0 THEN sig
     ELSE IF TypeNameParenAt(afterGeneric, 1)
          THEN SubSeq(sig, 1, openAngle - 1) \o afterGeneric
          ELSE sig

Modifiers ==
  {"public", "private", "protected", "static", "final", "abstract",
   "synchronized", "default", "native"}

\* [\w<>\[\],\s?] and [\w<>\[\]]
TypeLike(token) ==
  IsWord(token) \/ IsSpace(token) \/ token \in {"<", ">", "[", "]", ",", "?"}
TypeToken(token) == IsWord(token) \/ token \in {"<", ">", "[", "]"}

\* \s+\w+\s*\( right after index last
NameParenAfter(text, last) ==
  /\ last + 1 <= Len(text) /\ IsSpace(text[last + 1])
  /\ SkipSpaces(text, last + 1) <= Len(text)
  /\ IsWord(text[SkipSpaces(text, last + 1)])
  /\ SkipSpaces(text, SkipSpaces(text, last + 1) + 1) <= Len(text)
  /\ text[SkipSpaces(text, SkipSpaces(text, last + 1) + 1)] = "("

\* The first index from pos on that holds neither a modifier nor white
\* space: where (?:public|...|\s)* can reach from pos.
SkipModifiers(text, pos) ==
  LET others == {i \in pos..Len(text) :
                   ~(text[i] \in Modifiers \/ IsSpace(text[i]))}
  IN IF others = {} THEN Len(text) + 1
     ELSE CHOOSE i \in others : \A j \in others : i <= j

\* The indexes that \s+\w+\s*\( can follow.
NameParenEnds(text) == {l \in 1..Len(text) : NameParenAfter(text, l)}

\* The ends of the captures of
\* /(?:public|...|\s)*\s*([\w<>\[\],\s?]+?)\s+\w+\s*\(/ that start at
\* first.
TypeCaptureEnds(text, ends, first) ==
  {l \in ends : first <= l /\ \A i \in first..l : TypeLike(text[i])}

\* exec: the leftmost start, then the greedy prefix gives way as little as
\* it must and the lazy group takes as little as it can.
TypeMatch(text) ==
  LET ends == NameParenEnds(text)
      firsts == {k \in 1..Len(text) : TypeCaptureEnds(text, ends, k) # {}}
      starts == {i \in 1..Len(text) :
                   \E k \in firsts : i <= k /\ k <= SkipModifiers(text, i)}
      start == CHOOSE i \in starts : \A j \in starts : i <= j
      reached == {k \in firsts : start <= k /\ k <= SkipModifiers(text, start)}
      first == CHOOSE k \in reached : \A j \in reached : j <= k
      lasts == TypeCaptureEnds(text, ends, first)
      last == CHOOSE l \in lasts : \A j \in lasts : l <= j
  IN IF ends = {} \/ starts = {} THEN Null ELSE SubSeq(text, first, last)

\* /([\w<>\[\]]+)\s+\w+\s*\(/ : leftmost start, longest capture
FallbackMatch(text) ==
  LET captures == {c \in (1..Len(text)) \X NameParenEnds(text) :
                     /\ c[1] <= c[2]
                     /\ \A i \in c[1]..c[2] : TypeToken(text[i])}
      best == CHOOSE c \in captures :
                \A e \in captures :
                  c[1] < e[1] \/ (c[1] = e[1] /\ c[2] >= e[2])
  IN IF captures = {} THEN Null ELSE SubSeq(text, best[1], best[2])

parseReturnType(sig) ==
  LET withoutGenericDecl == removeMethodGenericDecl(RemoveBody(sig))
      match == TypeMatch(withoutGenericDecl)
      fallbackMatch == FallbackMatch(withoutGenericDecl)
  IN IF match # Null THEN TrimSpaces(match)
     ELSE IF fallbackMatch # Null THEN TrimSpaces(fallbackMatch)
     ELSE Void

\* /^(\w+)\s*(.*)$/s
parseParamTag(content, paramTypes) ==
  IF content = <<>> \/ ~IsWord(Head(content)) THEN Null
  ELSE Some([name |-> Head(content),
             type |-> IF MapHas(paramTypes, <<Head(content)>>)
                      THEN MapGet(paramTypes, <<Head(content)>>)
                      ELSE UnknownType,
             description |-> TrimSpaces(Tail(content))])

\* /^([\w.]+)\s*(.*)$/s
parseThrowsTag(content) ==
  LET rest == {i \in 1..Len(content) :
                 ~(IsWord(content[i]) \/ content[i] = ".")}
      i == IF rest = {} THEN Len(content) + 1
           ELSE CHOOSE r \in rest : \A q \in rest : r <= q
  IN IF i = 1 THEN Null
     ELSE Some([type |-> SubSeq(content, 1, i - 1),
                description |-> TrimSpaces(SubSeq(content, i, Len(content)))])

\* The matches of /@(param|...|see)\s+/g in rawTags, by their first index.
TagStarts(rawTags) ==
  {i \in 1..(Len(rawTags) - 1) :
     rawTags[i] \in TagTokens /\ IsSpace(rawTags[i + 1])}

\* segments[i + 1]?.trim() ?? "" for the match at index start
TagContent(rawTags, start) ==
  LET later == {i \in TagStarts(rawTags) : i > start}
      next == IF later = {} THEN Len(rawTags) + 1
              ELSE CHOOSE i \in later : \A j \in later : i <= j
  IN TrimSpaces(SubSeq(rawTags, start + 1, next - 1))

\* A plausible slip: the tag is kept whatever the return type.
ReturnTagAllowedAlways(returnType) == TRUE

\* if (returnType !== "void")
ReturnTagAllowed(returnType) == returnType # Void

\* switch (tagName)
ApplyTag(table, tagName, content, paramTypes, returnType) ==
  IF tagName = "@param"
  THEN [table EXCEPT !.params = @ \o parseParamTag(content, paramTypes)]
  ELSE IF tagName \in {"@return", "@returns"}
  THEN IF ReturnTagAllowed(returnType)
       THEN [table EXCEPT
               !.returns = Some([type |-> returnType,
                                 description |-> content])]
       ELSE table
  ELSE IF tagName \in {"@throws", "@exception"}
  THEN [table EXCEPT !.throws = @ \o parseThrowsTag(content)]
  ELSE IF tagName = "@since" THEN [table EXCEPT !.since = Some(content)]
  ELSE IF tagName = "@author" THEN [table EXCEPT !.author = Some(content)]
  ELSE IF tagName = "@deprecated"
  THEN [table EXCEPT !.deprecated = Some(content)]
  ELSE [table EXCEPT !.see = Append(@, content)]

RECURSIVE ApplyTags(_, _, _, _, _)
\* for (let i = 1; i < segments.length; i += 2)
ApplyTags(rawTags, starts, table, paramTypes, returnType) ==
  IF starts = {} THEN table
  ELSE LET start == CHOOSE i \in starts : \A j \in starts : i <= j
       IN ApplyTags(rawTags, starts \ {start},
                    ApplyTag(table, rawTags[start],
                             TagContent(rawTags, start), paramTypes,
                             returnType),
                    paramTypes, returnType)

parseTagTable(rawTags, sig) ==
  IF TrimSpaces(rawTags) = <<>> THEN EMPTY_TAG_TABLE
  ELSE ApplyTags(rawTags, TagStarts(rawTags), EMPTY_TAG_TABLE,
                 parseSignatureParams(sig), parseReturnType(sig))

\* What stands before the parameter list of a method declaration, with the
\* return type it declares.
Declarators ==
  {[text |-> <<"public", " ", "void", " ", "run">>, type |-> Void],
   [text |-> <<"public", " ", "List", "<", "User", ">", " ", "findAll">>,
    type |-> <<"List", "<", "User", ">">>],
   [text |-> <<"boolean", " ", "isOk">>, type |-> <<"boolean">>],
   [text |-> <<"public", " ", "static", " ", "Map", "<", "String", ",", " ",
               "Integer", ">", " ", "count">>,
    type |-> <<"Map", "<", "String", ",", " ", "Integer", ">">>],
   [text |-> <<"public", " ", "<", "T", ">", " ", "T", " ", "find">>,
    type |-> <<"T">>],
   [text |-> <<"protected", " ", "final", " ", "int", "[", "]", " ", "ids">>,
    type |-> <<"int", "[", "]">>],
   [text |-> <<"public", " ", "Map", ".", "Entry", "<", "String", ",",
               "Integer", ">", " ", "first">>,
    type |-> <<"Map", ".", "Entry", "<", "String", ",", "Integer", ">">>],
   [text |-> <<"public", " ", "<", "T", ">", " ", "List", "<", "T", ">", " ",
               "list">>,
    type |-> <<"List", "<", "T", ">">>],
   [text |-> <<"@", "Override", " ", "public", " ", "void", " ", "close">>,
    type |-> Void]}

\* Parameter declarations, with the name and the type each declares.
Parameters ==
  <<[text |-> <<"Map", "<", "String", ",", "Integer", ">", " ", "filters">>,
     name |-> "filters",
     type |-> <<"Map", "<", "String", ",", "Integer", ">">>],
    [text |-> <<"boolean", " ", "strict">>,
     name |-> "strict", type |-> <<"boolean">>],
    [text |-> <<"@", "A", "(", "x", ",", " ", "y", ")", " ", "final", " ",
                "List", "<", "@", "A", " ", "User", ">", " ", "users">>,
     name |-> "users", type |-> <<"List", "<", "@", "A", " ", "User", ">">>],
    [text |-> <<"final", " ", "@", "a", ".", "B", " ", "String", "...", " ",
                "args">>,
     name |-> "args", type |-> <<"String", "...">>],
    [text |-> <<"Map", "<", "String", ",", " ", "List", "<", "User", ">", ">",
                " ", "data">>,
     name |-> "data",
     type |-> <<"Map", "<", "String", ",", " ", "List", "<", "User", ">",
                ">">>]>>

\* Tags of a comment.
TagTexts ==
  <<<<"@param", " ", "filters", " ", "x">>,
    <<"@return", " ", "x">>,
    <<"@param", " ", "users">>,
    <<"@returns", " ", "x", " ", "y">>,
    <<"@param", " ", "other", " ", "x">>,
    <<"@param", " ", "args", "\n", " ", "x">>,
    <<"@see", " ", "x">>,
    <<"@param", " ", "<", "T", ">", " ", "x">>,
    <<"@param", " ", "data", " ", "x">>,
    <<"@throws", " ", "a", ".", "B", " ", "x">>>>

RECURSIVE JoinWith(_, _)
\* Array.prototype.join
JoinWith(pieces, separator) ==
  IF pieces = <<>> THEN <<>>
  ELSE IF Len(pieces) = 1 THEN Head(pieces)
  ELSE Head(pieces) \o separator \o JoinWith(Tail(pieces), separator)

\* The sequences of at most max elements of list, in the order of list.
Picks(list, max) ==
  LET at(chosen, k) ==
        CHOOSE i \in chosen : Cardinality({j \in chosen : j <= i}) = k
  IN {[k \in 1..Cardinality(chosen) |-> list[at(chosen, k)]] :
        chosen \in {c \in SUBSET (1..Len(list)) : Cardinality(c) <= max}}

ParameterLists == Picks(Parameters, MaxParams)

SignatureOf(declarator, parameters) ==
  declarator.text \o <<"(">>
  \o JoinWith([i \in 1..Len(parameters) |-> parameters[i].text], <<",", " ">>)
  \o <<")">>

\* The most tags in a tag region of repeated tags.
MaxRepeat == 3

\* Tags a comment may repeat, each with the content written after its keyword
\* (for @throws and @exception: the exception type and the description).
RepeatableTags ==
  {[text |-> <<"@since", " ", "1">>, name |-> "@since",
    content |-> <<"1">>, type |-> <<>>, description |-> <<>>],
   [text |-> <<"@since", " ", "2", ".", "0">>, name |-> "@since",
    content |-> <<"2", ".", "0">>, type |-> <<>>, description |-> <<>>],
   [text |-> <<"@author", " ", "a">>, name |-> "@author",
    content |-> <<"a">>, type |-> <<>>, description |-> <<>>],
   [text |-> <<"@author", " ", " ", "b", " ", "c">>, name |-> "@author",
    content |-> <<"b", " ", "c">>, type |-> <<>>, description |-> <<>>],
   [text |-> <<"@deprecated", " ", "x">>, name |-> "@deprecated",
    content |-> <<"x">>, type |-> <<>>, description |-> <<>>],
   [text |-> <<"@deprecated">>, name |-> "@deprecated",
    content |-> <<>>, type |-> <<>>, description |-> <<>>],
   [text |-> <<"@see", " ", "a">>, name |-> "@see",
    content |-> <<"a">>, type |-> <<>>, description |-> <<>>],
   [text |-> <<"@see", " ", "b">>, name |-> "@see",
    content |-> <<"b">>, type |-> <<>>, description |-> <<>>],
   [text |-> <<"@throws", " ", "a", ".", "B", " ", "x">>, name |-> "@throws",
    content |-> <<"a", ".", "B", " ", "x">>, type |-> <<"a", ".", "B">>,
    description |-> <<"x">>],
   [text |-> <<"@exception", " ", "C">>, name |-> "@exception",
    content |-> <<"C">>, type |-> <<"C">>, description |-> <<>>]}

NoDeclaration == [returnType |-> Void, parameters |-> <<>>]

TagIdle ==
  /\ tagRaw = <<>>
  /\ tagSignature = <<>>
  /\ tagDeclared = NoDeclaration
  /\ tagWritten = <<>>
  /\ tagTable = EMPTY_TAG_TABLE
  /\ tagPc = "idle"

\* parseJavadoc calls parseTagTable(rawTags, signature) with the tag region
\* of the comment and the signature of the declaration under it.
TagInputs ==
  /\ \E declarator \in Declarators, parameters \in ParameterLists :
       /\ tagSignature = SignatureOf(declarator, parameters)
       /\ tagDeclared = [returnType |-> declarator.type,
                         parameters |-> parameters]
  /\ \E tags \in Picks(TagTexts, MaxTags) :
       /\ tagRaw = JoinWith(tags, <<"\n">>)
       /\ tagWritten = tags
  /\ tagTable = EMPTY_TAG_TABLE
  /\ tagPc = "call"

\* A tag region of repeated tags, one tag per line, under a declaration
\* without parameters.
RepeatedTagInputs ==
  /\ \E declarator \in
         {d \in Declarators : d.type \in {Void, <<"boolean">>}} :
       /\ tagSignature = SignatureOf(declarator, <<>>)
       /\ tagDeclared = [returnType |-> declarator.type, parameters |-> <<>>]
  /\ \E tags \in SeqsUpTo(RepeatableTags, MaxRepeat) :
       /\ tagRaw = JoinWith([i \in 1..Len(tags) |-> tags[i].text], <<"\n">>)
       /\ tagWritten = tags
  /\ tagTable = EMPTY_TAG_TABLE
  /\ tagPc = "call"

ParseTagTable ==
  /\ tagPc = "call"
  /\ tagTable' = parseTagTable(tagRaw, tagSignature)
  /\ tagPc' = "done"
  /\ UNCHANGED <<tagRaw, tagSignature, tagDeclared, tagWritten>>
  /\ TagFrame

NextTags == ParseTagTable

(***************************************************************************)
(* JavaDocParser.parseMethod, parseField and parseEnumConstant: the        *)
(* comment of a member.                                                    *)
(***************************************************************************)
\* The most declarations in the body of the class.
MaxBlocks == 2

IsMarker(token) == token \in {"/**", "*/"}
NotMarker(token) == ~IsMarker(token)

\* line.replace(/^\s*\*\s?/, "")
StripStar(line) ==
  LET rest == TrimLeft(line)
  IN IF rest = <<>> \/ Head(rest) # "*" THEN line
     ELSE IF Len(rest) > 1 /\ IsSpace(rest[2])
          THEN SubSeq(rest, 3, Len(rest))
          ELSE Tail(rest)

\* raw is kept as its lines.
cleanComment(raw) ==
  TrimSpaces(JoinWith([i \in 1..Len(raw) |->
                         StripStar(SelectSeq(raw[i], NotMarker))],
                      <<"\n">>))

\* cleaned.search(/@\w+/), counted from 1; 0 for -1.
TagIndex(cleaned) ==
  LET tags == {i \in 1..Len(cleaned) :
                 \/ cleaned[i] \in TagTokens \cup {"@A"}
                 \/ /\ cleaned[i] = "@" /\ i < Len(cleaned)
                    /\ IsWord(cleaned[i + 1])}
  IN IF tags = {} THEN 0 ELSE CHOOSE i \in tags : \A j \in tags : i <= j

parseJavadoc(rawComment, sig) ==
  LET cleaned == cleanComment(rawComment)
      tagIndex == TagIndex(cleaned)
  IN [description |->
        IF tagIndex = 0 THEN cleaned
        ELSE TrimSpaces(SubSeq(cleaned, 1, tagIndex - 1)),
      tags |->
        parseTagTable(IF tagIndex = 0 THEN <<>>
                      ELSE SubSeq(cleaned, tagIndex, Len(cleaned)),
                      sig)]

\* parse: classSymbol ? this.extractComment(text, classLine) : ""
ClassComment(lines, classLine) == extractComment(lines, classLine)

\* extractComment with the guard against the comment of the class: a
\* comment that is the class comment is a mis-association.
extractMemberComment(lines, startLine, classComment) ==
  IF extractComment(lines, startLine) = classComment THEN <<>>
  ELSE extractComment(lines, startLine)

\* A plausible slip: the member counts as documented whatever was found.
HasCommentAlways(rawComment) == TRUE

\* const hasComment = rawComment.length > 0
HasComment(rawComment) == Len(rawComment) > 0

\* parseMethod: hasComment, description and tags of the MethodDoc
MethodComment(lines, startLine, classComment) ==
  LET fullSignature == extractFullSignature(lines, startLine)
      rawComment == extractMemberComment(lines, startLine, classComment)
      hasComment == HasComment(rawComment)
  IN IF hasComment
     THEN [hasComment |-> TRUE,
           description |-> parseJavadoc(rawComment, fullSignature).description,
           tags |-> parseJavadoc(rawComment, fullSignature).tags]
     ELSE [hasComment |-> FALSE, description |-> <<>>,
           tags |-> EMPTY_TAG_TABLE]

\* parseField: hasComment and description of the FieldDoc
FieldComment(lines, startLine, classComment) ==
  LET rawComment == extractMemberComment(lines, startLine, classComment)
      hasComment == HasComment(rawComment)
  IN [hasComment |-> hasComment,
      description |-> IF hasComment THEN cleanComment(rawComment) ELSE <<>>]

\* parseEnumConstant: hasComment and description of the EnumConstantDoc
EnumConstantComment(lines, startLine, classComment) ==
  FieldComment(lines, startLine, classComment)

\* The comment above the class, the annotation between it and the class,
\* and the declarations of the body with what stands above each.
ClassComments ==
  {<<>>,
   <<<<"/**", " ", "C1", " ", "*/">>>>,
   <<<<"/**">>, <<" ", "*", " ", "C1">>,
     <<" ", "*", " ", "@since", " ", "x">>, <<" ", "*/">>>>}

ClassAnnotations == {<<>>, <<<<"@A">>>>}

ClassLine == <<"public", " ", "class", " ", "C", " ", "{">>

Blocks ==
  <<<<<<" ", "/**", " ", "x", " ", "@return", " ", "x", " ", "*/">>,
      <<" ", "public", " ", "boolean", " ", "isOk", "(", ")", " ", "{">>>>,
    <<<<" ", "int", " ", "a", ";">>>>,
    <<<<"/**", " ", "C1", " ", "*/">>,
      <<"void", " ", "run", "(", ")", ";">>>>,
    <<<<" ", "/**", " ", "x", " ", "*/">>, <<" ", "@A">>,
      <<" ", "int", " ", "b", ";">>>>>>

RECURSIVE Concat(_)
Concat(pieces) ==
  IF pieces = <<>> THEN <<>> ELSE Head(pieces) \o Concat(Tail(pieces))

MemberKinds == {"method", "field", "enumConstant"}

NoMember == [hasComment |-> FALSE, description |-> <<>>]

MemberIdle ==
  /\ memberText = <<>>
  /\ memberClassLine = 0
  /\ memberStartLine = 0
  /\ memberKind = "method"
  /\ memberDoc = NoMember
  /\ memberPc = "idle"

\* parse calls parseMethod, parseField or parseEnumConstant for a flattened
\* symbol; the language server reports synthesized members on the lines of
\* the class declaration.
MemberInputs ==
  /\ \E classComment \in ClassComments, annotations \in ClassAnnotations,
        blocks \in Picks(Blocks, MaxBlocks) :
       /\ memberText = classComment \o annotations \o <<ClassLine>>
                       \o Concat(blocks) \o <<<<"}">>>>
       /\ memberClassLine = Len(classComment) + Len(annotations)
  /\ memberStartLine \in 0..(Len(memberText) - 1)
  /\ memberKind \in MemberKinds
  /\ memberDoc = NoMember
  /\ memberPc = "call"

ParseMember ==
  /\ memberPc = "call"
  /\ memberDoc' =
       LET classComment == ClassComment(memberText, memberClassLine)
       IN IF memberKind = "method"
          THEN MethodComment(memberText, memberStartLine, classComment)
          ELSE IF memberKind = "field"
          THEN FieldComment(memberText, memberStartLine, classComment)
          ELSE EnumConstantComment(memberText, memberStartLine, classComment)
  /\ memberPc' = "done"
  /\ UNCHANGED <<memberText, memberClassLine, memberStartLine, memberKind>>
  /\ MemberFrame

NextMember == ParseMember

(***************************************************************************)
(* splitByTopLevelComma called on its own.                                 *)
(***************************************************************************)
\* The longest enumerated argument of splitByTopLevelComma.
MaxSplit == 4

SplitChars == {"a", ",", "<", ">", "(", ")", " "}

\* "Map<String, List<User>> data, int count"
NestedGenericParams ==
  <<"Map", "<", "String", ",", " ", "List", "<", "User", ">", ">", " ",
    "data", ",", " ", "int", " ", "count">>

SplitTexts == SeqsUpTo(SplitChars, MaxSplit) \cup {NestedGenericParams}

SplitIdle ==
  /\ splitText = <<>>
  /\ segments = <<>>
  /\ splitPc = "idle"

SplitInputs ==
  /\ splitText \in SplitTexts
  /\ segments = <<>>
  /\ splitPc = "call"

\* One call splitByTopLevelComma(splitText).
SplitByTopLevelComma ==
  /\ splitPc = "call"
  /\ segments' = splitByTopLevelComma(splitText)
  /\ splitPc' = "done"
  /\ UNCHANGED splitText
  /\ SplitFrame

NextSplit == SplitByTopLevelComma

(***************************************************************************)
(* JavaDocParser.parseLineForStructure, as extractPrimaryTypeInfoFromText  *)
(* feeds it the lines of a text.                                           *)
(***************************************************************************)
\* The longest enumerated text, line breaks included.
MaxText == 5

\* The characters the scan tells apart, and "\n" between lines.
StructChars == {"{", "}", "/", "*", "\"", "'", "\\"}

\* text.split("\n")
SplitLines(text) ==
  LET breaks == {i \in 1..Len(text) : text[i] = "\n"}
      breakAt(k) ==
        IF k = 0 THEN 0
        ELSE IF k > Cardinality(breaks) THEN Len(text) + 1
        ELSE CHOOSE i \in breaks : Cardinality({j \in breaks : j <= i}) = k
  IN [k \in 1..(Cardinality(breaks) + 1) |->
        SubSeq(text, breakAt(k - 1) + 1, breakAt(k) - 1)]

\* let state: ParseState = { inBlockComment: false, ... }
NoParseState ==
  [inBlockComment |-> FALSE, inString |-> FALSE, inChar |-> FALSE]

\* A plausible slip: the second character of the token is scanned again.
AfterTokenOneChar(i) == i + 1

\* "i++; continue;" followed by the i++ of the loop
AfterToken(i) == i + 2

RECURSIVE ScanStructure(_, _, _, _)
\* The for loop of parseLineForStructure from index i (1-based); at holds
\* code, openBraces, closeBraces and the three flags.
ScanStructure(line, i, at, escaped) ==
  IF i > Len(line) THEN at
  ELSE
    LET ch == line[i]
        next == IF i + 1 <= Len(line) THEN line[i + 1] ELSE ""
    IN IF at.inBlockComment
       THEN IF ch = "*" /\ next = "/"
            THEN ScanStructure(line, AfterToken(i),
                               [at EXCEPT !.inBlockComment = FALSE], escaped)
            ELSE ScanStructure(line, i + 1, at, escaped)
       ELSE IF at.inString \/ at.inChar
       THEN IF escaped THEN ScanStructure(line, i + 1, at, FALSE)
            ELSE IF ch = "\\" THEN ScanStructure(line, i + 1, at, TRUE)
            ELSE IF at.inString /\ ch = "\""
            THEN ScanStructure(line, i + 1, [at EXCEPT !.inString = FALSE],
                               escaped)
            ELSE IF ~at.inString /\ ch = "'"
            THEN ScanStructure(line, i + 1, [at EXCEPT !.inChar = FALSE],
                               escaped)
            ELSE ScanStructure(line, i + 1, at, escaped)
       ELSE IF ch = "/" /\ next = "/" THEN at
       ELSE IF ch = "/" /\ next = "*"
       THEN ScanStructure(line, AfterToken(i),
                          [at EXCEPT !.inBlockComment = TRUE], escaped)
       ELSE IF ch = "\""
       THEN ScanStructure(line, i + 1, [at EXCEPT !.inString = TRUE], escaped)
       ELSE IF ch = "'"
       THEN ScanStructure(line, i + 1, [at EXCEPT !.inChar = TRUE], escaped)
       ELSE ScanStructure(
              line, i + 1,
              [at EXCEPT !.code = Append(@, ch),
                         !.openBraces = IF ch = "{" THEN @ + 1 ELSE @,
                         !.closeBraces = IF ch = "}" THEN @ + 1 ELSE @],
              escaped)

parseLineForStructure(line, state) ==
  LET end == ScanStructure(line, 1,
                           [code |-> <<>>, openBraces |-> 0, closeBraces |-> 0,
                            inBlockComment |-> state.inBlockComment,
                            inString |-> state.inString,
                            inChar |-> state.inChar],
                           FALSE)
  IN [code |-> end.code, openBraces |-> end.openBraces,
      closeBraces |-> end.closeBraces,
      state |-> [inBlockComment |-> end.inBlockComment,
                 inString |-> end.inString, inChar |-> end.inChar]]

RECURSIVE ParseLinesFrom(_, _, _)
\* for (let i = 0; i < lines.length; i++): parsed of every line, each call
\* fed with the state the call before returned.
ParseLinesFrom(lines, i, state) ==
  IF i > Len(lines) THEN <<>>
  ELSE LET parsed == parseLineForStructure(lines[i], state)
       IN <<parsed>> \o ParseLinesFrom(lines, i + 1, parsed.state)

StructIdle ==
  /\ structText = <<>>
  /\ structParsed = <<>>
  /\ structPc = "idle"

StructInputs ==
  /\ structText \in SeqsUpTo(StructChars \cup {"\n"}, MaxText)
  /\ structParsed = <<>>
  /\ structPc = "call"

\* The line loop of extractPrimaryTypeInfoFromText(structText, filePath).
ParseLinesForStructure ==
  /\ structPc = "call"
  /\ structParsed' = ParseLinesFrom(SplitLines(structText), 1, NoParseState)
  /\ structPc' = "done"
  /\ UNCHANGED structText
  /\ StructFrame

NextStruct == ParseLinesForStructure

LexIdle == SplitIdle /\ StructIdle

(***************************************************************************)
(* JavaDocParser.parse as a whole: the members of a tree that may hold     *)
(* nodes the language service built badly, and the authorship lookup of    *)
(* GitService.                                                             *)
(***************************************************************************)
\* Symbols in a tree that may hold badly built nodes.
MaxBroken == 3
\* Calls of parse on one parser.
MaxRuns == 4

\* undefined
Undefined == <<>>

\* A DocumentSymbol as the provider built it: hasRange is false when range
\* and selectionRange are missing, hasChildren when children is no array.
BrokenShapes ==
  {[kind |-> sh[1], name |-> sh[2], hasRange |-> r, hasChildren |-> c] :
     sh \in {<<"Class", "C">>, <<"Method", "f">>, <<"Field", "x">>},
     r \in BOOLEAN, c \in BOOLEAN}

\* The node at index i of a tree, reported on line i.
NodeAt(shape, par, i) ==
  [kind |-> shape.kind, name |-> shape.name, line |-> i, endLine |-> i,
   parent |-> par, hasRange |-> shape.hasRange,
   hasChildren |-> shape.hasChildren]

\* The lists that can take a further node: the top-level list (0) and the
\* children array of every container that has one.
Holders(tree) ==
  {0} \cup {i \in 1..Len(tree) :
              isClassLikeSymbol(tree[i]) /\ tree[i].hasChildren}

RECURSIVE BrokenTrees(_)
\* The trees of at most max nodes; a member is built with a children array.
BrokenTrees(max) ==
  IF max = 0 THEN {<<>>}
  ELSE LET shorter == BrokenTrees(max - 1)
       IN shorter \cup
          UNION {{Append(tree, NodeAt(shape, par, max)) :
                    shape \in {s \in BrokenShapes :
                                 isClassLikeSymbol(s) \/ s.hasChildren},
                    par \in Holders(tree)} :
                 tree \in {t \in shorter : Len(t) = max - 1}}

\* path.basename(filePath, path.extname(filePath))
BaseName == "C"

\* findClassSymbol, as an index of the tree; 0 for undefined.
findClassSymbol(tree) ==
  LET classLikes == SelectSeq(Children(tree, 0),
                              LAMBDA i : isClassLikeSymbol(tree[i]))
      matched == SelectSeq(classLikes, LAMBDA i : tree[i].name = BaseName)
  IN IF classLikes = <<>> THEN 0
     ELSE IF matched # <<>> THEN Head(matched) ELSE Head(classLikes)

\* classSymbol?.selectionRange?.start.line ?? classSymbol?.range.start.line
\* reads start of an undefined range.
ClassLineThrows(tree) ==
  findClassSymbol(tree) # 0 /\ ~tree[findClassSymbol(tree)].hasRange

\* symbol.children.length of flattenSymbols reads length of undefined.
FlattenThrows(tree) ==
  \E i \in 1..Len(tree) : isClassLikeSymbol(tree[i]) /\ ~tree[i].hasChildren

\* symbol.selectionRange?.start.line ?? symbol.range.start.line inside the
\* try block of parseMethod and of parseField.
MemberThrows(flattened) == ~flattened.symbol.hasRange

\* A plausible slip: the error of a member is thrown on.
ErrorEscapesMember(threw) == threw

\* catch (error) { console.error(...); return null; }
ErrorEscapes(threw) == FALSE

\* What parseMethod (callable) or parseField returns for a flattened symbol:
\* the document, null, or an error.
TryParseMember(flattened, callable) ==
  IF MemberThrows(flattened)
  THEN [threw |-> ErrorEscapes(TRUE), doc |-> Null]
  ELSE [threw |-> FALSE,
        doc |-> Some(IF callable THEN parseMethod(flattened)
                     ELSE parseField(flattened))]

\* .filter(isMethodSymbol | isFieldSymbol).map(parse).filter(m => m !== null)
\* .sort(...)
MemberList(flat, callable) ==
  LET wanted == SelectSeq(flat,
                  LAMBDA fs : IF callable THEN isMethodSymbol(fs.symbol)
                              ELSE isFieldSymbol(fs.symbol))
      parsed == [i \in 1..Len(wanted) |-> TryParseMember(wanted[i], callable)]
      kept == SelectSeq(parsed, LAMBDA p : p.doc # Null)
  IN [threw |-> \E i \in 1..Len(parsed) : parsed[i].threw,
      list |-> SortByStartLine([i \in 1..Len(kept) |-> kept[i].doc[1]])]

NoMembers == [threw |-> FALSE, methods |-> <<>>, fields |-> <<>>]
Thrown == [threw |-> TRUE, methods |-> <<>>, fields |-> <<>>]

\* Steps 2 to 4.5 of parse.
ParseMembers(tree) ==
  IF ClassLineThrows(tree) \/ FlattenThrows(tree) THEN Thrown
  ELSE LET flattenedSymbols == flattenSymbols(tree, Children(tree, 0), "")
           methodList == MemberList(flattenedSymbols, TRUE)
           fieldList == MemberList(flattenedSymbols, FALSE)
       IN IF methodList.threw \/ fieldList.threw THEN Thrown
          ELSE [threw |-> FALSE, methods |-> methodList.list,
                fields |-> fieldList.list]

\* What the git commands of one lookup can answer.  rev-parse resolves or
\* rejects; "git log ... | tail -1" resolves with the first author, with
\* nothing, or rejects (timeout); "git blame" resolves with the commit of the
\* class line, or with nothing, or rejects (path unknown to git, timeout).
BlameInfos ==
  {[author |-> "X", date |-> "d1"], [author |-> "Y", date |-> "d2"]}

GitAnswers ==
  [revParse : {"resolves", "rejects"},
   log : {"A", "", "rejects"},
   blame : {"X", "Y", "", "rejects"}]

\* parseBlameOutput(stdout)
parseBlameOutput(stdout) ==
  IF stdout \in {"", "rejects"} THEN Null
  ELSE Some(CHOOSE info \in BlameInfos : info.author = stdout)

\* getBlameForLine: the value returned and the cache it leaves.
getBlameForLine(cache, answers) ==
  IF cache # Null THEN [info |-> cache, cache |-> cache]
  ELSE IF answers.blame = "rejects" THEN [info |-> Null, cache |-> cache]
  ELSE [info |-> parseBlameOutput(answers.blame),
        cache |-> parseBlameOutput(answers.blame)]

\* a || b for strings
OrElse(a, b) == IF a # "" THEN a ELSE b

\* getClassGitInfo: the value returned and the cache it leaves.
getClassGitInfo(cache, answers) ==
  IF answers.log = "rejects" THEN [info |-> Null, cache |-> cache]
  ELSE LET lastModifier == getBlameForLine(cache, answers)
           modifier == IF lastModifier.info = Null THEN ""
                       ELSE lastModifier.info[1].author
       IN [info |->
             Some([author |-> OrElse(answers.log, OrElse(modifier, "Unknown")),
                   lastModifier |-> OrElse(modifier, "Unknown"),
                   lastModifyDate |-> IF lastModifier.info = Null THEN ""
                                      ELSE lastModifier.info[1].date]),
           cache |-> lastModifier.cache]

\* A plausible slip: the answer of isGitRepository is not consulted.
isGitRepositoryAlways(answers) == TRUE

\* isGitRepository
isGitRepository(answers) == answers.revParse = "resolves"

\* JavaDocParser.getGitInfo: GitAuthorInfo | undefined, and the cache left.
getGitInfo(cache, answers) ==
  IF ~isGitRepository(answers) THEN [info |-> Undefined, cache |-> cache]
  ELSE getClassGitInfo(cache, answers)

\* The answers a lookup waits for: a command that is not run answers
\* nothing ("unasked").
Received(cache, answers) ==
  LET logRuns == isGitRepository(answers)
      blameRuns == logRuns /\ answers.log # "rejects" /\ cache = Null
  IN [revParse |-> answers.revParse,
      log |-> IF logRuns THEN answers.log ELSE "unasked",
      blame |-> IF blameRuns THEN answers.blame ELSE "unasked"]

NoDoc == [threw |-> FALSE, methods |-> <<>>, fields |-> <<>>,
          gitInfo |-> Undefined]

NoAnswers == [revParse |-> "rejects", log |-> "rejects", blame |-> "rejects"]
Unasked == [revParse |-> "unasked", log |-> "unasked", blame |-> "unasked"]

RunIdle ==
  /\ runTree = <<>>
  /\ runAnswers = NoAnswers
  /\ runMembers = NoMembers
  /\ fileDoc = NoDoc
  /\ blameCache = Null
  /\ runPc = "idle"
  /\ runCount = 0
  /\ runLog = {}

\* Trees of the calls that follow one another: a class with a method and a
\* field, and the same with a method that has no range.
RunTrees ==
  {<<NodeAt([kind |-> "Class", name |-> "C", hasRange |-> TRUE,
             hasChildren |-> TRUE], 0, 1),
     NodeAt([kind |-> "Method", name |-> "f", hasRange |-> ok,
             hasChildren |-> TRUE], 1, 2),
     NodeAt([kind |-> "Field", name |-> "x", hasRange |-> TRUE,
             hasChildren |-> TRUE], 1, 3)>> : ok \in BOOLEAN}

\* parse(document) is called and resolveSymbols returns tree.
StartRun(tree) ==
  /\ runPc \in {"idle", "done"}
  /\ runCount < MaxRuns
  /\ runTree' = tree
  /\ runMembers' = NoMembers
  /\ fileDoc' = NoDoc
  /\ runPc' = "ready"
  /\ runCount' = runCount + 1
  /\ UNCHANGED <<runAnswers, blameCache, runLog>>
  /\ RunFrame

\* parse runs from resolveSymbols to the await of getGitInfo, or throws.
AssembleRun ==
  /\ runPc = "ready"
  /\ runMembers' = ParseMembers(runTree)
  /\ IF ParseMembers(runTree).threw
     THEN /\ fileDoc' = [NoDoc EXCEPT !.threw = TRUE]
          /\ runPc' = "done"
          /\ runLog' = runLog \cup
                         {[tree |-> runTree, answers |-> Unasked,
                           doc |-> [NoDoc EXCEPT !.threw = TRUE]]}
     ELSE /\ runPc' = "git"
          /\ UNCHANGED <<fileDoc, runLog>>
  /\ UNCHANGED <<runTree, runAnswers, blameCache, runCount>>
  /\ RunFrame

\* getGitInfo runs with the answers of the git commands and parse returns.
GetGitInfo(answers) ==
  /\ runPc = "git"
  /\ LET found == getGitInfo(blameCache, answers)
         doc == [threw |-> FALSE, methods |-> runMembers.methods,
                 fields |-> runMembers.fields, gitInfo |-> found.info]
     IN /\ fileDoc' = doc
        /\ blameCache' = found.cache
        /\ runLog' = runLog \cup
                       {[tree |-> runTree,
                         answers |-> Received(blameCache, answers),
                         doc |-> doc]}
  /\ runAnswers' = answers
  /\ runPc' = "done"
  /\ UNCHANGED <<runTree, runMembers, runCount>>
  /\ RunFrame

\* setTimeout(() => this.cache.delete(cacheKey), this.cacheTimeout)
BlameCacheExpires ==
  /\ blameCache # Null
  /\ blameCache' = Null
  /\ UNCHANGED <<runTree, runAnswers, runMembers, fileDoc, runPc, runCount,
                 runLog>>
  /\ RunFrame

NextRuns ==
  \/ \E tree \in RunTrees : StartRun(tree)
  \/ AssembleRun
  \/ \E answers \in GitAnswers : GetGitInfo(answers)
  \/ BlameCacheExpires

\* One call of parse on a tree that may hold badly built nodes.
NextBrokenRun ==
  \/ AssembleRun
  \/ \E answers \in {NoAnswers} : GetGitInfo(answers)

\* One call of parse, with whatever an earlier lookup left in the cache.
NextLookup ==
  \/ AssembleRun
  \/ \E answers \in GitAnswers : GetGitInfo(answers)

LookupInputs ==
  /\ runTree \in RunTrees
  /\ runAnswers = NoAnswers
  /\ runMembers = NoMembers
  /\ fileDoc = NoDoc
  /\ blameCache \in {Null} \cup {Some(info) : info \in BlameInfos}
  /\ runPc = "ready"
  /\ runCount = 1
  /\ runLog = {}

BrokenRunInputs ==
  /\ runTree \in BrokenTrees(MaxBroken)
  /\ runAnswers = NoAnswers
  /\ runMembers = NoMembers
  /\ fileDoc = NoDoc
  /\ blameCache = Null
  /\ runPc = "ready"
  /\ runCount = 1
  /\ runLog = {}

(***************************************************************************)
(* The provider in its host: the listeners of extension.ts, the messages   *)
(* of the view, clearView and dispose.                                     *)
(***************************************************************************)
\* Editor changes and upstream messages per behaviour.
MaxEditorChanges == 2
MaxReceived == 2

\* The Java documents of the workspace and a document of another language.
HostUris == {"A.java", "B.java"}
OtherDocument == "notes.txt"
NoEditor == "none"

\* document.languageId === 'java'
IsJava(doc) == doc \in HostUris

\* What the view, or anything else in the webview, can post.
WebviewReady == [typeof |-> "object", type |-> "webviewReady"]
JumpToLine(line) ==
  [typeof |-> "object", type |-> "jumpToLine",
   payload |-> [typeof |-> "object", line |-> line]]
PostedValues ==
  {WebviewReady, JumpToLine(1),
   [typeof |-> "string"],
   [typeof |-> "object"],
   [typeof |-> "object", type |-> "reload"],
   [typeof |-> "object", type |-> "jumpToLine"],
   [typeof |-> "object", type |-> "jumpToLine",
    payload |-> [typeof |-> "string"]],
   [typeof |-> "object", type |-> "jumpToLine",
    payload |-> [typeof |-> "object"]]}

\* A plausible slip: the default branch of the switch lets the value
\* through.
isUpstreamMessageByDefault(value) ==
  IF value.typeof # "object" THEN FALSE
  ELSE IF "type" \notin DOMAIN value THEN FALSE
  ELSE IF value.type = "jumpToLine"
  THEN /\ "payload" \in DOMAIN value
       /\ value.payload.typeof = "object"
       /\ "line" \in DOMAIN value.payload
  ELSE TRUE

\* types.ts isUpstreamMessage; a line that is present is a number.
isUpstreamMessage(value) ==
  IF value.typeof # "object" THEN FALSE
  ELSE IF "type" \notin DOMAIN value THEN FALSE
  ELSE IF value.type = "jumpToLine"
  THEN /\ "payload" \in DOMAIN value
       /\ value.payload.typeof = "object"
       /\ "line" \in DOMAIN value.payload
  ELSE value.type = "webviewReady"

HostIdle ==
  /\ activeEditor = NoEditor
  /\ selectionLine = 0
  /\ received = <<>>
  /\ editorLog = <<>>
  /\ disposed = FALSE

\* The extension is active with the view resolved, the Java documents are
\* open and no editor has the focus.
HostStart ==
  /\ ProviderIdle
  /\ RefreshIdle
  /\ DebounceIdle
  /\ openVersion = [u \in HostUris |-> 1]
  /\ symbolCache = [u \in HostUris |-> NoEntry]
  /\ pendingResolves = EmptyBag
  /\ lastReturn = NoReturn
  /\ HostIdle

\* A plausible slip: clearView leaves the highlighted id.
ClearViewKeepsHighlight ==
  /\ currentMethods' = <<>>
  /\ lastHighlightId' = lastHighlightId
  /\ outbox' = Append(outbox, Msg("clearView", Undefined))

\* clearView(): the provider fields after it.
ClearView ==
  /\ currentMethods' = <<>>
  /\ lastHighlightId' = NoId
  /\ outbox' = Append(outbox, Msg("clearView", Undefined))

\* refresh(document) up to its first await: a Java document starts a pass,
\* anything else clears the view.
StartRefresh(doc) ==
  IF IsJava(doc)
  THEN /\ passes' = Append(passes, NewPass(doc))
       /\ UNCHANGED providerVars
  ELSE /\ ClearView
       /\ UNCHANGED passes

\* onDidChangeActiveTextEditor: refresh(editor.document) for a Java
\* document, clearView() otherwise.
ChangeActiveEditor(doc) ==
  /\ ~disposed
  /\ Len(editorLog) < MaxEditorChanges
  /\ doc # activeEditor
  /\ IsJava(doc) => Len(passes) < MaxPasses
  /\ activeEditor' = doc
  /\ editorLog' = Append(editorLog, [doc |-> doc, atCall |-> Len(calls)])
  /\ StartRefresh(doc)
  /\ UNCHANGED <<selectionLine, received, disposed, lastAccepted, openVersion,
                 debounceVars>>
  /\ HostFrame

\* webview.onDidReceiveMessage -> handleUpstreamMessage(message)
HandleUpstreamMessage(message) ==
  /\ ~disposed
  /\ Len(received) < MaxReceived
  /\ IF ~isUpstreamMessage(message)
     THEN /\ received' = Append(received, [message |-> message, pass |-> 0])
          /\ UNCHANGED <<selectionLine, passes, providerVars>>
     ELSE IF message.type = "jumpToLine"
     THEN /\ selectionLine' = IF activeEditor = NoEditor THEN selectionLine
                              ELSE message.payload.line
          /\ received' = Append(received, [message |-> message, pass |-> 0])
          /\ UNCHANGED <<passes, providerVars>>
     ELSE /\ IsJava(activeEditor) => Len(passes) < MaxPasses
          /\ StartRefresh(activeEditor)
          /\ received' =
               Append(received,
                      [message |-> message,
                       pass |-> IF IsJava(activeEditor)
                                THEN Len(passes) + 1 ELSE 0])
          /\ UNCHANGED selectionLine
  /\ UNCHANGED <<activeEditor, editorLog, disposed, lastAccepted, openVersion,
                 debounceVars>>
  /\ HostFrame

\* The provider answers with a tree: a well-formed one or one that makes
\* parse reject.
TreeOutcomes(uri) == {outcome \in RefreshOutcomes(uri) : outcome.defined}

\* The view posts and the editor changes while passes settle.
NextUpstream ==
  \/ \E message \in PostedValues : HandleUpstreamMessage(message)
  \/ \E doc \in {"A.java"} : ChangeActiveEditor(doc)
  \/ \E p \in 1..Len(passes) :
       \E outcome \in TreeOutcomes(passes[p].doc) : SymbolsSettle(p, outcome)
  \/ \E p \in 1..Len(passes) : GitInfoSettles(p)

\* Editors change, documents are edited and selections settle while passes
\* are in flight.
NextView ==
  \/ \E doc \in HostUris \cup {OtherDocument} : ChangeActiveEditor(doc)
  \/ \E uri \in HostUris : EditDocument(uri)
  \/ \E p \in 1..Len(passes) :
       \E outcome \in TreeOutcomes(passes[p].doc) : SymbolsSettle(p, outcome)
  \/ \E p \in 1..Len(passes) : GitInfoSettles(p)
  \/ \E line \in 0..MaxCursor : UpdateHighlight(line)

\* onDidSaveTextDocument: refresh(document) for a Java document.
SaveDocument(doc) ==
  /\ ~disposed
  /\ IsJava(doc)
  /\ Len(passes) < MaxPasses
  /\ StartRefresh(doc)
  /\ UNCHANGED <<hostVars, lastAccepted, openVersion, debounceVars>>
  /\ HostFrame

\* context.subscriptions are disposed: the listeners are gone and
\* SidebarProvider.dispose() has run, which releases nothing.
Dispose ==
  /\ ~disposed
  /\ disposed' = TRUE
  /\ UNCHANGED <<activeEditor, selectionLine, received, editorLog,
                 providerVars, refreshVars, openVersion, debounceVars>>
  /\ HostFrame

\* onDidChangeTextEditorSelection in a Java editor:
\* handleSelectionChange(line).
SelectionChanges(line) ==
  /\ ~disposed
  /\ IsJava(activeEditor)
  /\ HandleSelectionChange(line)

\* The cursor moves, editors change and documents are saved while timers
\* run and passes settle.
NextSelection ==
  \/ \E doc \in HostUris \cup {OtherDocument} : ChangeActiveEditor(doc)
  \/ \E doc \in HostUris : SaveDocument(doc)
  \/ \E line \in 0..MaxCursor : SelectionChanges(line)
  \/ Tick
  \/ \E t \in timers : TimerFire(t)
  \/ \E p \in 1..Len(passes) :
       \E outcome \in TreeOutcomes(passes[p].doc) : SymbolsSettle(p, outcome)
  \/ \E p \in 1..Len(passes) : GitInfoSettles(p)
  \/ Dispose

\* Selection events per behaviour while one document is saved again.
MaxSelections == 2

\* One Java document is shown, saved and walked through.
NextReselect ==
  \/ \E doc \in {"A.java"} : ChangeActiveEditor(doc)
  \/ \E doc \in {"A.java"} : SaveDocument(doc)
  \/ \E line \in 0..MaxCursor :
       Len(calls) < MaxSelections /\ SelectionChanges(line)
  \/ Tick
  \/ \E t \in timers : TimerFire(t)
  \/ \E p \in 1..Len(passes) :
       \E outcome \in TreeOutcomes(passes[p].doc) : SymbolsSettle(p, outcome)
  \/ \E p \in 1..Len(passes) : GitInfoSettles(p)

TextIdle ==
  /\ CommentIdle /\ SignatureIdle /\ TagIdle /\ MemberIdle /\ LexIdle
  /\ RunIdle

(***************************************************************************)
(* Specifications.                                                         *)
(***************************************************************************)
InitSearch ==
  /\ SearchInputs /\ ProviderIdle /\ DebounceIdle /\ ParseIdle /\ CacheIdle
  /\ RefreshIdle /\ TextIdle
  /\ HostIdle

SpecSearch == InitSearch /\ [][NextSearch]_vars

InitHighlight ==
  /\ HighlightStart /\ SearchIdle /\ ParseIdle /\ CacheIdle /\ RefreshIdle
  /\ TextIdle
  /\ HostIdle

SpecHighlight == InitHighlight /\ [][NextHighlight]_vars

\* Time passes and the host runs every timer that is due.
LiveHighlight ==
  /\ SpecHighlight
  /\ WF_vars(Tick)
  /\ WF_vars(\E t \in timers : TimerFire(t))

InitParse ==
  /\ ParseInputs /\ SearchIdle /\ ProviderIdle /\ DebounceIdle /\ CacheIdle
  /\ RefreshIdle /\ TextIdle
  /\ HostIdle

SpecParse == InitParse /\ [][NextParse]_vars

InitNested ==
  /\ NestedInputs /\ SearchIdle /\ ProviderIdle /\ DebounceIdle /\ CacheIdle
  /\ RefreshIdle /\ TextIdle
  /\ HostIdle

SpecNested == InitNested /\ [][NextParse]_vars

InitCache ==
  /\ CacheIdle /\ SearchIdle /\ ProviderIdle /\ DebounceIdle /\ ParseIdle
  /\ RefreshIdle /\ TextIdle
  /\ HostIdle

SpecCache == InitCache /\ [][NextCache]_vars

InitRefresh ==
  RefreshStart /\ SearchIdle /\ DebounceIdle /\ ParseIdle /\ TextIdle
  /\ HostIdle

SpecRefresh == InitRefresh /\ [][NextRefresh]_vars

SpecRefreshFrame == InitRefresh /\ [][NextRefreshFrame]_vars

InitComment ==
  /\ CommentInputs /\ SearchIdle /\ ProviderIdle /\ DebounceIdle /\ ParseIdle
  /\ CacheIdle /\ RefreshIdle /\ SignatureIdle /\ TagIdle /\ MemberIdle
  /\ LexIdle /\ RunIdle
  /\ HostIdle

InitHost == HostStart /\ SearchIdle /\ ParseIdle /\ TextIdle

SpecUpstream == InitHost /\ [][NextUpstream]_vars

\* The language service and git answer every request.
LiveUpstream ==
  /\ SpecUpstream
  /\ WF_vars(\E p \in 1..Len(passes) :
               \E outcome \in TreeOutcomes(passes[p].doc) :
                 SymbolsSettle(p, outcome))
  /\ WF_vars(\E p \in 1..Len(passes) : GitInfoSettles(p))

SpecView == InitHost /\ [][NextView]_vars

SpecSelection == InitHost /\ [][NextSelection]_vars

SpecReselect == InitHost /\ [][NextReselect]_vars

SpecComment == InitComment /\ [][NextComment]_vars

InitSignature ==
  /\ SignatureInputs /\ SearchIdle /\ ProviderIdle /\ DebounceIdle
  /\ ParseIdle /\ CacheIdle /\ RefreshIdle /\ CommentIdle /\ TagIdle
  /\ MemberIdle /\ LexIdle /\ RunIdle
  /\ HostIdle

SpecSignature == InitSignature /\ [][NextSignature]_vars

InitTags ==
  /\ TagInputs /\ SearchIdle /\ ProviderIdle /\ DebounceIdle /\ ParseIdle
  /\ CacheIdle /\ RefreshIdle /\ CommentIdle /\ SignatureIdle /\ MemberIdle
  /\ LexIdle /\ RunIdle
  /\ HostIdle

SpecTags == InitTags /\ [][NextTags]_vars

InitRepeatedTags ==
  /\ RepeatedTagInputs /\ SearchIdle /\ ProviderIdle /\ DebounceIdle
  /\ ParseIdle /\ CacheIdle /\ RefreshIdle /\ CommentIdle /\ SignatureIdle
  /\ MemberIdle /\ LexIdle /\ RunIdle
  /\ HostIdle

SpecRepeatedTags == InitRepeatedTags /\ [][NextTags]_vars

InitMember ==
  /\ MemberInputs /\ SearchIdle /\ ProviderIdle /\ DebounceIdle /\ ParseIdle
  /\ CacheIdle /\ RefreshIdle /\ CommentIdle /\ SignatureIdle /\ TagIdle
  /\ LexIdle /\ RunIdle
  /\ HostIdle

SpecMember == InitMember /\ [][NextMember]_vars

InitSplit ==
  /\ SplitInputs /\ SearchIdle /\ ProviderIdle /\ DebounceIdle /\ ParseIdle
  /\ CacheIdle /\ RefreshIdle /\ CommentIdle /\ SignatureIdle /\ TagIdle
  /\ MemberIdle /\ StructIdle /\ RunIdle
  /\ HostIdle

SpecSplit == InitSplit /\ [][NextSplit]_vars

InitStruct ==
  /\ StructInputs /\ SearchIdle /\ ProviderIdle /\ DebounceIdle /\ ParseIdle
  /\ CacheIdle /\ RefreshIdle /\ CommentIdle /\ SignatureIdle /\ TagIdle
  /\ MemberIdle /\ SplitIdle /\ RunIdle
  /\ HostIdle

SpecStruct == InitStruct /\ [][NextStruct]_vars

InitRuns ==
  /\ RunIdle /\ SearchIdle /\ ProviderIdle /\ DebounceIdle /\ ParseIdle
  /\ CacheIdle /\ RefreshIdle /\ CommentIdle /\ SignatureIdle /\ TagIdle
  /\ MemberIdle /\ LexIdle
  /\ HostIdle

SpecRuns == InitRuns /\ [][NextRuns]_vars

InitBrokenRun ==
  /\ BrokenRunInputs /\ SearchIdle /\ ProviderIdle /\ DebounceIdle
  /\ ParseIdle /\ CacheIdle /\ RefreshIdle /\ CommentIdle /\ SignatureIdle
  /\ TagIdle /\ MemberIdle /\ LexIdle
  /\ HostIdle

SpecBrokenRun == InitBrokenRun /\ [][NextBrokenRun]_vars

InitLookup ==
  /\ LookupInputs /\ SearchIdle /\ ProviderIdle /\ DebounceIdle /\ ParseIdle
  /\ CacheIdle /\ RefreshIdle /\ CommentIdle /\ SignatureIdle /\ TagIdle
  /\ MemberIdle /\ LexIdle
  /\ HostIdle

SpecLookup == InitLookup /\ [][NextLookup]_vars

(***************************************************************************)
(* Claims.                                                                 *)
(***************************************************************************)
\* C1: for a list sorted ascending by startLine with pairwise disjoint
\* spans, binarySearchMethod returns the unique span containing the query
\* line when one exists and null otherwise (empty list, gaps, before the
\* first span, after the last span).
C1_SearchCorrect ==
  (searchPc = "done" /\ PairwiseDisjoint(methods)) =>
    /\ (\E i \in 1..Len(methods) : Contains(methods[i], cursorLine)) =>
         /\ searchResult # NoMethod
         /\ Contains(searchResult, cursorLine)
         /\ \A i \in 1..Len(methods) :
              Contains(methods[i], cursorLine) => methods[i] = searchResult
    /\ (~ \E i \in 1..Len(methods) : Contains(methods[i], cursorLine)) =>
         searchResult = NoMethod

\* A query in the gap between two disjoint spans has been answered.
C1_Witness ==
  /\ searchPc = "done"
  /\ Len(methods) = 2
  /\ PairwiseDisjoint(methods)
  /\ methods[1].endLine < cursorLine
  /\ cursorLine < methods[2].startLine
  /\ searchResult = NoMethod

\* C2: a burst of debounced calls followed by silence ends in exactly one
\* run of the wrapped callback, with the arguments of the last call: every
\* delivery carries the line of the latest call made before it, no call is
\* delivered twice, and every call is eventually superseded by a later call
\* or delivered.
C2_DebounceDeliversLast ==
  /\ [](\A i \in 1..Len(deliveries) :
          /\ deliveries[i].atCall \in 1..Len(calls)
          /\ deliveries[i].line = calls[deliveries[i].atCall]
          /\ i > 1 => deliveries[i - 1].atCall < deliveries[i].atCall)
  /\ \A n \in 1..MaxCalls :
       (Len(calls) = n) ~>
         \/ Len(calls) > n
         \/ /\ deliveries # <<>>
            /\ deliveries[Len(deliveries)].atCall = n

\* A burst of three calls on different lines was delivered once, with the
\* third call's line.
C2_Witness ==
  /\ Len(calls) = 3
  /\ calls[1] # calls[3]
  /\ calls[2] # calls[3]
  /\ deliveries = <<[line |-> calls[3], atCall |-> 3]>>
  /\ timers = {}

\* C3: a debounced function never owns more than one pending timer, and
\* two consecutive deliveries are at least one full quiet interval apart.
C3_OneTimerOneDeliveryPerInterval ==
  /\ Cardinality(timers) <= 1
  /\ lastGap # NoGap => lastGap >= Delay

\* Two deliveries have happened and a third call has its timer pending.
C3_Witness ==
  /\ Len(deliveries) = 2
  /\ lastGap # NoGap
  /\ Cardinality(timers) = 1
  /\ timeoutId # NoTimer

\* The id the most recent delivery resolved to (currentMethods is not
\* replaced between selection events).
PrevResolvedId ==
  IF deliveries = <<>> THEN NoId
  ELSE ResolveId(currentMethods, deliveries[Len(deliveries)].line)

\* The id of the last highlightMethod message posted.
LastPostedId ==
  IF outbox = <<>> THEN NoId ELSE outbox[Len(outbox)].payload

IsDelivery == Len(deliveries') = Len(deliveries) + 1

DeliveredId == ResolveId(currentMethods, deliveries'[Len(deliveries')].line)

StrictlyAscending(list) ==
  \A i \in 1..(Len(list) - 1) : list[i].startLine < list[i + 1].startLine

Ascending(list) ==
  \A i \in 1..(Len(list) - 1) : list[i].startLine <= list[i + 1].startLine

\* C9 as claimed: in the ClassDoc parse returns, methods and fields are
\* strictly ascending by startLine, for any tree of the provider.
C9_StrictlyAscending ==
  parsePc = "done" =>
    StrictlyAscending(classDoc.methods) /\ StrictlyAscending(classDoc.fields)

\* C9 as amended: methods and fields are ascending by startLine, and
\* members reported on the same line stay next to each other with equal
\* startLine.
C9_Ascending ==
  parsePc = "done" =>
    Ascending(classDoc.methods) /\ Ascending(classDoc.fields)

\* parse has sorted three methods the provider reported out of line order,
\* two of them on the same line.
C9_Witness ==
  /\ parsePc = "done"
  /\ Len(classDoc.methods) = 3
  /\ classDoc.methods[1].startLine = classDoc.methods[2].startLine
  /\ classDoc.methods[2].startLine < classDoc.methods[3].startLine
  /\ parseTree[1].line > parseTree[2].line

\* C10: in the ClassDoc parse returns, any two distinct MethodDoc entries
\* have different ids, for any tree of the provider.
C10_IdsDistinct ==
  parsePc = "done" =>
    \A i, j \in 1..Len(classDoc.methods) :
      i # j => classDoc.methods[i].id # classDoc.methods[j].id

\* A call of resolveSymbols returns in this step with a tree it took from
\* the cache.
ReturnsFromCache == lastReturn' # lastReturn /\ lastReturn'.fromCache

\* C7: resolveSymbols returns a cached tree only when the entry's version
\* equals the open document's current version: the tree returned is the one
\* stored under the version the document has at the return.
C7_CacheHitOnlyAtSameVersion ==
  [][ReturnsFromCache =>
       LET uri == lastReturn'.uri
       IN /\ openVersion[uri] # NotOpen
          /\ symbolCache[uri] # NoEntry
          /\ symbolCache[uri].version = openVersion[uri]
          /\ lastReturn'.symbols = symbolCache[uri].symbols]_vars

\* A call returned the tree cached for A.java at version 2 while the
\* document was at version 2.
C7_Witness ==
  /\ lastReturn = [uri |-> "A.java", fromCache |-> TRUE,
                   symbols |-> TreeOf("A.java", 2)]
  /\ symbolCache["A.java"].version = 2
  /\ openVersion["A.java"] = 2

\* C8: the cache holds no entry for a document that is not open, for
\* every interleaving of close events with resolveSymbols calls.
C8_NoEntryForClosedDocument ==
  \A uri \in Uris : openVersion[uri] = NotOpen => symbolCache[uri] = NoEntry

\* pass p ends in this step
PassEnds(p) ==
  /\ p \in 1..Len(passes)
  /\ passes[p].pc # "done"
  /\ passes'[p].pc = "done"

\* C5: once the result of a pass has been accepted, the result of a pass
\* that started earlier is never accepted.
C5_NoStaleOverwrite == [][lastAccepted' >= lastAccepted]_vars

RECURSIVE QualifyingPath(_, _)
\* The names of node par and of its ancestors, outermost first, dot-joined;
\* the empty string for the top level.
QualifyingPath(tree, par) ==
  IF par = 0 THEN ""
  ELSE LET outer == QualifyingPath(tree, tree[par].parent)
       IN IF outer = "" THEN tree[par].name
          ELSE outer \o "." \o tree[par].name

\* C11: every member flattenSymbols emits carries the dot-joined names of
\* its enclosing containers, outermost first, without its own name, and
\* "Unknown" when nothing encloses it.
C11_BelongsToIsContainerPath ==
  parsePc = "done" =>
    \A i \in 1..Len(flatMembers) :
      LET path == QualifyingPath(parseTree, flatMembers[i].symbol.parent)
      IN flatMembers[i].belongsTo = IF path = "" THEN "Unknown" ELSE path

\* A member of enum E nested in class C has been flattened, and so has a
\* member of the top level.
C11_Witness ==
  /\ parsePc = "done"
  /\ \E i \in 1..Len(flatMembers) : flatMembers[i].belongsTo = "C.E"
  /\ \E i \in 1..Len(flatMembers) : flatMembers[i].belongsTo = "Unknown"

\* The classification tag of a declaration node.
Classification(symbol) ==
  CASE symbol.kind \in {"Class", "Interface", "Enum"} -> "container"
    [] symbol.kind \in {"Method", "Constructor"} -> "callable"
    [] symbol.kind \in {"Field", "Constant"} -> "field"
    [] symbol.kind = "EnumMember" -> "enumeration-constant"
    [] OTHER -> "unclassified"

RECURSIVE PreOrder(_, _)
\* The nodes below the listed ones, the listed ones included, in pre-order.
PreOrder(tree, nodes) ==
  IF nodes = <<>> THEN <<>>
  ELSE <<Head(nodes)>> \o PreOrder(tree, Children(tree, Head(nodes)))
       \o PreOrder(tree, Tail(nodes))

RECURSIVE AncestorsAreContainers(_, _)
AncestorsAreContainers(tree, par) ==
  \/ par = 0
  \/ /\ Classification(tree[par]) = "container"
     /\ AncestorsAreContainers(tree, tree[par].parent)

IsEmittedNode(tree, i) ==
  /\ Classification(tree[i]) \in {"callable", "field", "enumeration-constant"}
  /\ AncestorsAreContainers(tree, tree[i].parent)

RECURSIVE ArgumentsEnd(_, _, _)
\* The line after the one that closes the parentheses of an annotation
\* (counted from 1), Len + 1 if they are still open at the target.
ArgumentsEnd(lines, i, depth) ==
  IF depth <= 0 \/ i > Len(lines) THEN i
  ELSE ArgumentsEnd(lines, i + 1,
                    depth + CountOf(lines[i], "(") - CountOf(lines[i], ")"))

RECURSIVE IsAnnotationRun(_, _)
\* Lines i.. up to the target hold nothing but blank lines and annotations,
\* the argument list of an annotation going on until its parentheses are
\* balanced.
IsAnnotationRun(lines, i) ==
  \/ i = Len(lines) + 1
  \/ /\ i <= Len(lines)
     /\ Trim(lines[i]) = <<>>
     /\ IsAnnotationRun(lines, i + 1)
  \/ /\ i <= Len(lines)
     /\ Trim(lines[i]) # <<>>
     /\ Head(Trim(lines[i])) = "@A"
     /\ IsAnnotationRun(
          lines,
          ArgumentsEnd(lines, i + 1,
                       CountOf(lines[i], "(") - CountOf(lines[i], ")")))

\* Lines first..last of the text (counted from 1) are one block: an opener
\* on the first, a closer at the end of the last, no other opener or closer
\* in between.
IsBlock(lines, first, last) ==
  /\ first <= last
  /\ Includes(lines[first], "/**")
  /\ EndsWith(Trim(lines[last]), "*/")
  /\ \A k \in first..(last - 1) : ~Includes(lines[k], "*/")
  /\ \A k \in (first + 1)..last : ~Includes(lines[k], "/**")

\* C13: a block separated from the target line by blank lines and
\* annotations only is returned, from its opener line through its closer
\* line and nothing more.
C13_ReturnsTheBlockAbove ==
  commentPc = "done" =>
    \A first, last \in 1..Len(sourceLines) :
      IsBlock(sourceLines, first, last)
      /\ IsAnnotationRun(sourceLines, last + 1)
      => comment = SubSeq(sourceLines, first, last)

\* The first line of the longest run of blank lines and annotations that
\* ends at the target (counted from 1; Len + 1 when the run is empty).
RunStart(lines) ==
  CHOOSE i \in 1..(Len(lines) + 1) :
    /\ IsAnnotationRun(lines, i)
    /\ \A j \in 1..(i - 1) : ~IsAnnotationRun(lines, j)

\* C14: when the first line above the target that is neither blank nor part
\* of an annotation does not end with a closer, extractComment returns "".
C14_HardStopAtCode ==
  commentPc = "done" =>
    LET above == RunStart(sourceLines) - 1
    IN /\ above >= 1
       /\ Head(Trim(sourceLines[above])) # "@A"
       /\ ~EndsWith(Trim(sourceLines[above]), "*/")
       => comment = <<>>

\* Going up from closer line e, a line with a closer comes before any line
\* with an opener.
SecondCloserFirst(lines, e) ==
  /\ e >= 1
  /\ ~Includes(lines[e], "/**")
  /\ \E c \in 1..(e - 1) :
       /\ Includes(lines[c], "*/")
       /\ \A k \in c..(e - 1) : ~Includes(lines[k], "/**")

\* The closer lines the search for an opener starts from (counted from 1):
\* they end with a closer and only blank lines and annotations follow.
CloserLines(lines) ==
  {e \in 1..Len(lines) :
     EndsWith(Trim(lines[e]), "*/") /\ IsAnnotationRun(lines, e + 1)}

ReadLimit ==
  IF Len(sigLines) - 1 < sigStart + MAX_SIGNATURE_LINES
  THEN Len(sigLines) - 1
  ELSE sigStart + MAX_SIGNATURE_LINES

RECURSIVE JoinLines(_, _, _)
\* The characters of lines from..to, each line followed by one space.
JoinLines(lines, from, to) ==
  IF from > to THEN <<>>
  ELSE LineAt(lines, from) \o <<" ">> \o JoinLines(lines, from + 1, to)

DepthAfter(text, i) ==
  CountOf(SubSeq(text, 1, i), "(") - CountOf(SubSeq(text, 1, i), ")")

\* The depth returns to zero at character i after having been positive.
ClosesAt(text, i) ==
  text[i] = ")" /\ DepthAfter(text, i) = 0 /\ DepthAfter(text, i - 1) > 0

\* The first such character, 0 when there is none.
FirstClose(text) ==
  IF \E i \in 1..Len(text) : ClosesAt(text, i)
  THEN CHOOSE i \in 1..Len(text) :
         ClosesAt(text, i) /\ \A j \in 1..(i - 1) : ~ClosesAt(text, j)
  ELSE 0

IsInk(entry) == ~IsSpace(entry.char)

\* The characters of text that are not white space, each with whether white
\* space separates it from the one before.
Words(text) ==
  SelectSeq([i \in 1..Len(text) |->
               [char |-> text[i],
                spaced |-> /\ i > 1 /\ IsSpace(text[i - 1])
                           /\ \E j \in 1..(i - 1) : ~IsSpace(text[j])]],
            IsInk)

\* No white space but single spaces between words.
IsNormalized(text) ==
  /\ \A i \in 1..Len(text) : IsSpace(text[i]) => text[i] = " "
  /\ \A i \in 1..(Len(text) - 1) : ~(IsSpace(text[i]) /\ IsSpace(text[i + 1]))
  /\ text # <<>> => ~IsSpace(text[1]) /\ ~IsSpace(text[Len(text)])

\* The text the scan may read, from the start line on.
ReadableText == JoinLines(sigLines, sigStart, ReadLimit)

C18_CeilingKept ==
  /\ sigLastRead <= sigStart + MAX_SIGNATURE_LINES
  /\ sigLastRead <= Len(sigLines) - 1
  /\ sigPc = "call" => sigScan.lineIndex <= ReadLimit + 1
  /\ sigPc = "done" =>
       /\ IsNormalized(signature)
       /\ IF FirstClose(ReadableText) > 0
          THEN /\ signature[Len(signature)] = ")"
               /\ DepthAfter(signature, Len(signature)) = 0
               /\ Words(signature)
                    = Words(SubSeq(ReadableText, 1, FirstClose(ReadableText)))
          ELSE Words(signature) = Words(ReadableText)

\* A pass of the loop that does not return moves on to the next line.
C18_ScanAdvances ==
  (sigPc = "call" /\ sigPc' = "call") =>
    sigScan'.lineIndex = sigScan.lineIndex + 1

C19_VoidHasNoReturnTag ==
  tagPc = "done" =>
    /\ parseReturnType(tagSignature) = Void => tagTable.returns = Null
    /\ tagTable.returns # Null => tagTable.returns[1].type # Void

\* A void method whose comment has a @return and a @returns tag.
C19_Witness ==
  /\ tagPc = "done"
  /\ tagSignature = <<"public", " ", "void", " ", "run", "(", "boolean", " ",
                      "strict", ")">>
  /\ tagRaw = <<"@return", " ", "x", "\n", "@returns", " ", "x", " ", "y">>
  /\ tagTable = EMPTY_TAG_TABLE

\* The parameters of the declaration that have the name of a ParamTag.
DeclaredAs(name) ==
  {tagDeclared.parameters[i] : i \in
     {j \in 1..Len(tagDeclared.parameters) :
        tagDeclared.parameters[j].name = name}}

\* C20: every ParamTag has the type the signature declares for the
\* parameter of its name, annotations and final in front of it left out and
\* its generic arguments kept, and "unknown" when the signature declares no
\* parameter of that name; a ReturnTag has the return type the signature
\* declares.
C20_TypesAreTheDeclaredOnes ==
  tagPc = "done" =>
    /\ \A i \in 1..Len(tagTable.params) :
         IF DeclaredAs(tagTable.params[i].name) # {}
         THEN \A declared \in DeclaredAs(tagTable.params[i].name) :
                tagTable.params[i].type = declared.type
         ELSE tagTable.params[i].type = UnknownType
    /\ (tagDeclared.returnType # Void /\ tagTable.returns # Null) =>
         tagTable.returns[1].type = tagDeclared.returnType

DepthBefore(text, i, opener, closer) ==
  CountOf(SubSeq(text, 1, i - 1), opener)
  - CountOf(SubSeq(text, 1, i - 1), closer)

\* The commas outside every pair of angle brackets and of parentheses.
TopLevelCommas(text) ==
  {i \in 1..Len(text) :
     /\ text[i] = ","
     /\ DepthBefore(text, i, "<", ">") = 0
     /\ DepthBefore(text, i, "(", ")") = 0}

\* The k-th piece of text when it is cut at the positions cuts.
PieceOf(text, cuts, k) ==
  LET cutAt(n) ==
        IF n = 0 THEN 0
        ELSE IF n > Cardinality(cuts) THEN Len(text) + 1
        ELSE CHOOSE i \in cuts : Cardinality({j \in cuts : j <= i}) = n
  IN SubSeq(text, cutAt(k - 1) + 1, cutAt(k) - 1)

\* text without its last piece and the comma in front of it.
WithoutLastPiece(text, cuts) ==
  IF cuts = {} THEN <<>>
  ELSE SubSeq(text, 1, (CHOOSE i \in cuts : \A j \in cuts : j <= i) - 1)

\* C21: splitByTopLevelComma cuts its argument at exactly the commas at which
\* the angle-bracket depth and the parenthesis depth are both zero and returns
\* the pieces in order, without the last one when it is blank; joined with
\* "," the pieces give the argument back, up to that dropped last piece.
C21_SplitsAtTopLevelCommas ==
  splitPc = "done" =>
    LET cuts == TopLevelCommas(splitText)
        last == Cardinality(cuts) + 1
        blankLast == TrimSpaces(PieceOf(splitText, cuts, last)) = <<>>
        kept == IF blankLast THEN last - 1 ELSE last
    IN /\ segments = [k \in 1..kept |-> PieceOf(splitText, cuts, k)]
       /\ JoinWith(segments, <<",">>) =
            IF blankLast THEN WithoutLastPiece(splitText, cuts)
            ELSE splitText

\* "Map<String, List<User>> data, int count" gives two segments and the first
\* keeps its inner comma.
C21_Witness ==
  /\ splitPc = "done"
  /\ splitText = NestedGenericParams
  /\ Len(segments) = 2
  /\ \E i \in 1..Len(segments[1]) : segments[1][i] = ","
  /\ segments[2] = <<" ", "int", " ", "count">>

\* The positions of tagWritten that hold a tag with one of the keywords names.
WrittenAs(names) == {i \in 1..Len(tagWritten) : tagWritten[i].name \in names}

\* The content of the last tag written with the keyword name, null without one.
LastWritten(name) ==
  IF WrittenAs({name}) = {} THEN Null
  ELSE Some(tagWritten[CHOOSE i \in WrittenAs({name}) :
                         \A j \in WrittenAs({name}) : j <= i].content)

\* The tags written with one of the keywords names, in the order of the comment.
AllWritten(names) ==
  LET at(k) == CHOOSE i \in WrittenAs(names) :
                 Cardinality({j \in WrittenAs(names) : j <= i}) = k
  IN [k \in 1..Cardinality(WrittenAs(names)) |-> tagWritten[at(k)]]

\* C22: each of since, author and deprecated holds the content of the last tag
\* of that keyword in the comment, see holds the content of every @see in the
\* order of the comment, and throws holds every @throws and @exception, in the
\* order of the comment.
C22_LastScalarAllRepeatable ==
  tagPc = "done" =>
    /\ tagTable.since = LastWritten("@since")
    /\ tagTable.author = LastWritten("@author")
    /\ tagTable.deprecated = LastWritten("@deprecated")
    /\ tagTable.see =
         [k \in 1..Len(AllWritten({"@see"})) |->
            AllWritten({"@see"})[k].content]
    /\ tagTable.throws =
         [k \in 1..Len(AllWritten({"@throws", "@exception"})) |->
            [type |-> AllWritten({"@throws", "@exception"})[k].type,
             description |->
               AllWritten({"@throws", "@exception"})[k].description]]

\* C23: two calls of parse that get the same tree and the same answers from
\* the collaborators return the same document, whatever was parsed before
\* and whatever the caches hold.
C23_SameInputsSameDoc ==
  \A a, b \in runLog :
    (a.tree = b.tree /\ a.answers = b.answers) => a.doc = b.doc

\* The nodes of runTree of one of the kinds whose range can be read, in the
\* order of their lines.
SoundMembers(kinds) ==
  LET sound == {i \in 1..Len(runTree) :
                  runTree[i].kind \in kinds /\ runTree[i].hasRange}
      at(k) == CHOOSE i \in sound : Cardinality({j \in sound : j <= i}) = k
  IN [k \in 1..Cardinality(sound) |->
        [name |-> runTree[at(k)].name, startLine |-> runTree[at(k)].line]]

NameAndLine(list) ==
  [k \in 1..Len(list) |->
     [name |-> list[k].name, startLine |-> list[k].startLine]]

\* A container without a children array, or a class symbol (the first
\* top-level container) without a range.
BrokenContainer ==
  \/ \E i \in 1..Len(runTree) :
       runTree[i].kind \in CLASS_LIKE_KINDS /\ ~runTree[i].hasChildren
  \/ \E i \in 1..Len(runTree) :
       /\ runTree[i].kind \in CLASS_LIKE_KINDS /\ runTree[i].parent = 0
       /\ ~runTree[i].hasRange
       /\ \A j \in 1..(i - 1) :
            ~(runTree[j].kind \in CLASS_LIKE_KINDS /\ runTree[j].parent = 0)

\* The lists hold exactly the methods and fields whose parsing did not fail.
OtherMembersReturned ==
  /\ ~runMembers.threw
  /\ NameAndLine(runMembers.methods) = SoundMembers(METHOD_KINDS)
  /\ NameAndLine(runMembers.fields) = SoundMembers(FIELD_KINDS)

ReturnedWithMembers ==
  /\ ~fileDoc.threw
  /\ fileDoc.methods = runMembers.methods
  /\ fileDoc.fields = runMembers.fields
  /\ Len(fileDoc.methods) + Len(fileDoc.fields) >= 1

\* git blame was run and gave no commit: the cache took nothing.
BlameFailed ==
  /\ runAnswers.revParse = "resolves"
  /\ runAnswers.log # "rejects"
  /\ runAnswers.blame \in {"", "rejects"}
  /\ blameCache = Null

RECURSIVE OutsideFrom(_, _, _)
\* The positions of text from i on that lie outside every block comment
\* (from a slash-star to the next star-slash), line comment (from two
\* slashes to the end of the line), string literal and char literal (from a
\* quote to the next quote of its kind that no backslash stands before);
\* within is "code", "block", "line", "string" or "char".
OutsideFrom(text, i, within) ==
  IF i > Len(text) THEN {}
  ELSE
    LET two == IF i < Len(text) THEN <<text[i], text[i + 1]>> ELSE <<>>
    IN CASE within = "code" ->
              IF two = <<"/", "/">> THEN OutsideFrom(text, i + 2, "line")
              ELSE IF two = <<"/", "*">> THEN OutsideFrom(text, i + 2, "block")
              ELSE IF text[i] = "\"" THEN OutsideFrom(text, i + 1, "string")
              ELSE IF text[i] = "'" THEN OutsideFrom(text, i + 1, "char")
              ELSE {i} \cup OutsideFrom(text, i + 1, "code")
         [] within = "block" ->
              IF two = <<"*", "/">> THEN OutsideFrom(text, i + 2, "code")
              ELSE OutsideFrom(text, i + 1, "block")
         [] within = "line" ->
              OutsideFrom(text, i + 1,
                          IF text[i] = "\n" THEN "code" ELSE "line")
         [] within = "string" ->
              IF text[i] = "\\" THEN OutsideFrom(text, i + 2, "string")
              ELSE OutsideFrom(text, i + 1,
                               IF text[i] = "\"" THEN "code" ELSE "string")
         [] OTHER ->
              IF text[i] = "\\" THEN OutsideFrom(text, i + 2, "char")
              ELSE OutsideFrom(text, i + 1,
                               IF text[i] = "'" THEN "code" ELSE "char")

\* The line (from 1) that position i of text is on.
LineOf(text, i) ==
  1 + Cardinality({j \in 1..(i - 1) : text[j] = "\n"})

\* The braces of one kind on line k that lie outside every comment and
\* literal of the text.
BracesOutside(text, brace, k) ==
  Cardinality({i \in OutsideFrom(text, 1, "code") :
                 text[i] = brace /\ LineOf(text, i) = k})

\* C26: fed line by line with the carried-over state, parseLineForStructure
\* counts on every line exactly the braces that lie outside every block
\* comment, line comment, string literal and char literal of the text.
C26_CountsBracesOutside ==
  structPc = "done" =>
    /\ Len(structParsed) = Len(SplitLines(structText))
    /\ \A k \in 1..Len(structParsed) :
         /\ structParsed[k].openBraces = BracesOutside(structText, "{", k)
         /\ structParsed[k].closeBraces = BracesOutside(structText, "}", k)

\* "/*/" opens a comment without closing it: the brace on the next line is
\* not counted.
C26_Witness ==
  /\ structPc = "done"
  /\ structText = <<"/", "*", "/", "\n", "{">>
  /\ structParsed[2].openBraces = 0
  /\ structParsed[2].state.inBlockComment

\* C27 as claimed: a debounced selection that resolves to no method while
\* the view highlights a method (the last message posted highlighted one and
\* nothing cancelled it since) makes the provider post a message.
C27_GapPostsCancel ==
  [][(IsDelivery /\ DeliveredId = NoId /\ LastPostedId # NoId)
       => Len(outbox') > Len(outbox)]_vars

\* C28 as claimed: for one open document at one version the language
\* service is queried at most once: no two queries for the version the
\* document is open at are in flight together.
C28_OneQueryPerVersion ==
  \A call \in BagToSet(pendingResolves) :
    (call.version # NotOpen /\ openVersion[call.uri] = call.version)
      => CopiesIn(call, pendingResolves) <= 1

\* refresh stores and posts the result of pass p in this one step.
PublishesWhole(p) ==
  /\ currentMethods' = passes[p].classDoc.methods
  /\ lastHighlightId' = NoId
  /\ outbox' = Append(outbox, Msg("updateView", passes[p].classDoc))

\* C29: a pass whose parse rejected ends leaving currentMethods and
\* lastHighlightId as they were and posting nothing; a pass whose parse
\* resolved ends by replacing currentMethods, resetting lastHighlightId to
\* null and posting updateView in one step; and no step changes
\* currentMethods or posts updateView otherwise, so no state in between is
\* ever visible to another event.
C29_RefreshIsAllOrNothing ==
  [][/\ \A p \in 1..Len(passes) :
          PassEnds(p) =>
            IF passes'[p].rejected
            THEN UNCHANGED <<currentMethods, lastHighlightId, outbox>>
            ELSE PublishesWhole(p)
     /\ (\/ currentMethods' # currentMethods
         \/ /\ Len(outbox') > Len(outbox)
            /\ outbox'[Len(outbox')].type = "updateView")
          => \E p \in 1..Len(passes) :
               PassEnds(p) /\ ~passes'[p].rejected /\ PublishesWhole(p)]_vars

\* A pass published a method and a selection highlighted it; the parse of
\* the next pass rejected and the method list, the highlighted id and the
\* messages are as they were.
C29_Witness ==
  /\ Len(passes) = 2
  /\ passes[1].pc = "done" /\ ~passes[1].rejected
  /\ passes[2].pc = "done" /\ passes[2].rejected
  /\ currentMethods = passes[1].classDoc.methods
  /\ currentMethods # <<>>
  /\ lastHighlightId = currentMethods[1].id
  /\ Len(outbox) = 2
  /\ outbox[2] = Msg("highlightMethod", lastHighlightId)

\* The first opening parenthesis of text, 0 when there is none.
FirstOpen(text) ==
  LET openers == {i \in 1..Len(text) : text[i] = "("}
  IN IF openers = {} THEN 0 ELSE CHOOSE i \in openers : \A j \in openers : i <= j

\* The closing parenthesis that matches the first opening one, the depth
\* being counted from that opening parenthesis on; 0 when there is none.
CloseOfFirstOpen(text) ==
  IF FirstOpen(text) = 0 THEN 0
  ELSE MatchingClose(text, FirstOpen(text), "(", ")")

\* C30 as claimed: the depth is tracked only from the first opening
\* parenthesis on, so whatever closing parentheses come before it, the
\* signature returned ends at the closing parenthesis that matches the
\* first opening one.
C30_StopsAtMatchOfFirstOpen ==
  (sigPc = "done" /\ CloseOfFirstOpen(ReadableText) > 0) =>
    Words(signature)
      = Words(SubSeq(ReadableText, 1, CloseOfFirstOpen(ReadableText)))

\* The signature has the shape "modifiers <TypeParams> R name(params)": a
\* type-parameter declaration is the first thing after its modifiers.
DeclaresTypeParams(sig) ==
  LET rest == {i \in 1..Len(sig) : ~IsSpace(sig[i]) /\ sig[i] \notin Modifiers}
  IN rest # {} /\ sig[CHOOSE i \in rest : \A j \in rest : i <= j] = "<"

\* C31 as claimed: for a signature with a method-level type-parameter
\* declaration the return type resolved is the declared return type R, and
\* so never contains the declaration.
C31_GenericDeclIsStripped ==
  (tagPc = "done" /\ DeclaresTypeParams(tagSignature)) =>
    parseReturnType(tagSignature) = tagDeclared.returnType

\* A message is handled in this step, and which.
IsHandled == Len(received') = Len(received) + 1
Handled == received'[Len(received')].message

\* The messages of the protocol among the values posted.
ValidMessages == {WebviewReady, JumpToLine(1)}

\* What handling a message does at once: a webviewReady starts one refresh,
\* which clears the view when no Java document is active and starts a pass
\* on the active document otherwise; a value that is no upstream message
\* starts no refresh, moves no selection and changes no provider state.
HandlingStep ==
  IsHandled =>
    /\ Handled \notin ValidMessages =>
         UNCHANGED <<providerVars, passes, selectionLine, activeEditor>>
    /\ (Handled = WebviewReady /\ ~IsJava(activeEditor)) =>
         /\ outbox' = Append(outbox, Msg("clearView", Undefined))
         /\ passes' = passes
    /\ (Handled = WebviewReady /\ IsJava(activeEditor)) =>
         /\ passes' = Append(passes, NewPass(activeEditor))
         /\ received'[Len(received')].pass = Len(passes')
         /\ outbox' = outbox

\* Pass p moves on in this step without ending.
PassGoesOn(p) ==
  /\ p \in 1..Len(passes)
  /\ passes'[p] # passes[p]
  /\ passes'[p].pc # "done"

IdsOf(list) == {list[i].id : i \in 1..Len(list)}

\* The latest updateView or clearView message before message k, 0 when
\* there is none.
ViewBefore(k) ==
  LET views == {j \in 1..(k - 1) :
                  outbox[j].type \in {"updateView", "clearView"}}
  IN IF views = {} THEN 0 ELSE CHOOSE j \in views : \A i \in views : i <= j

\* C33: lastHighlightId is null or the id of an element of currentMethods,
\* and every highlightMethod message posted carries the id of a method of
\* the payload of the latest updateView before it, no clearView having
\* been posted in between.
C33_HighlightIdsAreCurrent ==
  /\ lastHighlightId = NoId \/ lastHighlightId \in IdsOf(currentMethods)
  /\ \A k \in 1..Len(outbox) :
       outbox[k].type = "highlightMethod" =>
         /\ ViewBefore(k) > 0
         /\ outbox[ViewBefore(k)].type = "updateView"
         /\ outbox[k].payload \in IdsOf(outbox[ViewBefore(k)].payload.methods)

\* A method of the published document was highlighted and the view was
\* then cleared for an editor of another language.
C33_Witness ==
  /\ Len(outbox) = 3
  /\ outbox[1].type = "updateView"
  /\ outbox[2] = Msg("highlightMethod", "f_1")
  /\ outbox[3].type = "clearView"
  /\ activeEditor = OtherDocument
  /\ lastHighlightId = NoId
  /\ currentMethods = <<>>

\* C34: when the last message posted is updateView, so that no selection has
\* been highlighted since that refresh, a debounced selection that resolves
\* to a method posts highlightMethod for it, whatever was highlighted before
\* the refresh.
C34_FirstSelectionAfterRefreshPosts ==
  [][(/\ IsDelivery
      /\ outbox # <<>>
      /\ outbox[Len(outbox)].type = "updateView"
      /\ DeliveredId # NoId)
       => outbox' = Append(outbox, Msg("highlightMethod", DeliveredId))]_vars

\* The method was highlighted, the document was saved and parsed again, and
\* the next selection in the same method highlighted it again.
C34_Witness ==
  /\ Len(outbox) = 4
  /\ outbox[1].type = "updateView"
  /\ outbox[2] = Msg("highlightMethod", "f_1")
  /\ outbox[3].type = "updateView"
  /\ outbox[4] = Msg("highlightMethod", "f_1")

\* C35 as claimed: while the editor of another language that cleared the
\* view is active (no refresh starts in that time: editors are the only
\* source of passes here), currentMethods is empty and the latest view
\* message posted is that clearView, also when a pass was awaiting the
\* parser as the view was cleared.
C35_ClearViewIsFinal ==
  activeEditor = OtherDocument =>
    /\ currentMethods = <<>>
    /\ ViewBefore(Len(outbox) + 1) > 0
    /\ outbox[ViewBefore(Len(outbox) + 1)].type = "clearView"

\* The document whose editor was active when selection event k was seen.
DocumentOfCall(k) ==
  LET before == {i \in 1..Len(editorLog) : editorLog[i].atCall < k}
  IN editorLog[CHOOSE i \in before : \A j \in before : j <= i].doc

\* C36 as claimed: when a timer fires, the line it carries is looked up in
\* the method list of the document the line was captured in: the list
\* published last is that of the document that was active at the selection
\* event.  Only lists that belong to the active document are looked at, so
\* that a pass overtaken by a later one is not what is found.
C36_LineMeetsItsDocument ==
  [][(/\ IsDelivery
      /\ currentMethods # <<>>
      /\ passes[lastAccepted].doc = activeEditor)
       => passes[lastAccepted].doc
            = DocumentOfCall(deliveries'[Len(deliveries')].atCall)]_vars

\* C37 as claimed: once dispose() has been called the provider performs no
\* lookup and posts no message.
C37_QuietAfterDispose ==
  [][disposed => (~IsDelivery /\ outbox' = outbox)]_vars

RECURSIVE TokensOf(_)
\* The tokens of some lines, one after the other.
TokensOf(lines) ==
  IF lines = <<>> THEN <<>> ELSE Head(lines) \o TokensOf(Tail(lines))

RECURSIVE OpenAfter(_, _)
\* A comment is open after the first n tokens.
OpenAfter(tokens, n) ==
  IF n = 0 THEN FALSE
  ELSE IF tokens[n] \in {"/**", "/*"} THEN TRUE
  ELSE IF tokens[n] = "*/" THEN FALSE
  ELSE OpenAfter(tokens, n - 1)

\* Some token of the lines is code that lies outside every comment.
HasCodeOutside(lines) ==
  LET tokens == TokensOf(lines)
  IN \E n \in 1..Len(tokens) :
       tokens[n] \in {"x", "@A", "(", ")"} /\ ~OpenAfter(tokens, n - 1)

\* C38 as claimed: a result that is not "" is one block: its first line
\* contains the opener, its last line ends with the closer, no line strictly
\* between them contains a closer, and none of its lines is code outside a
\* comment.
C38_ResultIsOneBlock ==
  (commentPc = "done" /\ comment # <<>>) =>
    /\ Includes(comment[1], "/**")
    /\ EndsWith(Trim(comment[Len(comment)]), "*/")
    /\ \A k \in 2..(Len(comment) - 1) : ~Includes(comment[k], "*/")
    /\ ~HasCodeOutside(comment)

\* C39 as claimed: an empty or malformed answer of the language service is
\* not kept: a call that finds the document at the version of that answer
\* asks the service again, so no call returns an empty tree from the cache.
C39_EmptyAnswerIsAskedAgain ==
  [][ReturnsFromCache => lastReturn'.symbols # <<>>]_vars

====
